---- MODULE Spec2Model ----
(***************************************************************************)
(* Delta-nets visualizer: the port graph, the term compiler, the redex     *)
(* scanner, the rewrite rules and the undo/redo history of                 *)
(* src/visualizer/lib/methods/deltanets.ts, and the older scanner kept in  *)
(* src/visualizer/lib/examples.ts ("parallel variant").                    *)
(*                                                                         *)
(* A node is a JavaScript object; here it is an identifier (a sequence of  *)
(* naturals) and a record in the "nodes" function of its graph.  Port      *)
(* indexes are the 0-based indexes of the code; ports[k] of the code is    *)
(* ports[k + 1] of the record.                                             *)
(***************************************************************************)
EXTENDS Integers, Sequences, FiniteSets, TLC

VARIABLES
    variant,        \* "deltanets" (methods/deltanets.ts) or "parallel" (examples.ts)
    ast,            \* the term handed to init
    systemType,     \* "linear" | "affine" | "relevant" | "full"
    relativeLevel,  \* the relativeLevel flag of init/render
    graphs,         \* the graph objects: object id -> [order, nodes]
    stack,          \* MethodState.stack, a sequence of graph object ids
    idx,            \* MethodState.idx (0-based)
    forward,        \* MethodState.forward   (a closure, or undefined)
    forwardParallel,\* MethodState.forwardParallel
    back,           \* MethodState.back  (TRUE = defined)
    reset,          \* MethodState.reset
    last,           \* MethodState.last
    data,           \* MethodState.data = [appliedFinalStep, isFinalStep]
    redexes,        \* the redex list of the last render (click handlers)
    lastOp,         \* the operation that produced this state
    thrown,         \* the Error a thunk raised in the last operation, or "none"
    snap            \* history variable: <<the graph that was current before the step,
                    \* whether the cursor was below the tip>> while the last
                    \* operation is that step or the back right after it

vars == <<variant, ast, systemType, relativeLevel, graphs, stack, idx, forward,
          forwardParallel, back, reset, last, data, redexes, lastOp, thrown, snap>>

(***************************************************************************)
(* Bounds of the model.                                                    *)
(***************************************************************************)
MaxStack == 7      \* longest history explored
MaxNodes == 20     \* largest graph from which a further reduction is explored
MaxClickNodes == 12 \* largest graph in which clicks on redex wires are explored

\* `const x = v; ...`: the value is computed once, before the statements
\* that use it.
Bind(v, F(_)) == CHOOSE r \in {F(x) : x \in {v}} : TRUE

(***************************************************************************)
(* Terms (AstNode of ast.ts).                                              *)
(***************************************************************************)
Abs(n, b) == [type |-> "abs", name |-> n, body |-> b]
App(f, a) == [type |-> "app", func |-> f, arg |-> a]
Var(n)    == [type |-> "var", name |-> n]

\* (\x.x) (\y.y)
TermIdId == App(Abs("x", Var("x")), Abs("y", Var("y")))
\* \f.(\x.f (x x)) (\x.f (x x))
TermY == Abs("f", App(Abs("x", App(Var("f"), App(Var("x"), Var("x")))),
                      Abs("x", App(Var("f"), App(Var("x"), Var("x"))))))
\* (\k.u) (\f.(\x.f (x x)) (\x.f (x x)))       "Erasure vs Sharing"
TermErasure == App(Abs("k", Var("u")), TermY)
\* \p.p ((\k.u) (\f.p p))                      "Replicator Decay"
TermDecay == Abs("p", App(Var("p"),
                 App(Abs("k", Var("u")), Abs("f", App(Var("p"), Var("p"))))))
\* (\a.a a) (\b.b b)                           "Omega"
TermOmega == App(Abs("a", App(Var("a"), Var("a"))), Abs("b", App(Var("b"), Var("b"))))
\* \y.(\a.\b.a a (b b)) y y
TermShare == Abs("y", App(App(Abs("a", Abs("b",
                 App(App(Var("a"), Var("a")), App(Var("b"), Var("b"))))), Var("y")), Var("y")))
\* \x.(\k.u) (x x)
TermDrop == Abs("x", App(Abs("k", Var("u")), App(Var("x"), Var("x"))))
\* (\x.\y.y x) z (\w.w)
TermLin == App(App(Abs("x", Abs("y", App(Var("y"), Var("x")))), Var("z")), Abs("w", Var("w")))
\* \x.(\k.u) (x x) x x
TermStrip == Abs("x", App(App(App(Abs("k", Var("u")), App(Var("x"), Var("x"))), Var("x")),
                          Var("x")))
\* \x.(\k.z x) x
TermSplice == Abs("x", App(Abs("k", App(Var("z"), Var("x"))), Var("x")))
\* \y.(\a.\b.b b (a a)) y y
TermSort == Abs("y", App(App(Abs("a", Abs("b",
                 App(App(Var("b"), Var("b")), App(Var("a"), Var("a"))))), Var("y")), Var("y")))
\* (\k.(\x.x) u) (\y.y)
TermEraseId == App(Abs("k", App(Abs("x", Var("x")), Var("u"))), Abs("y", Var("y")))
\* (\x.x) (u u): a free variable used twice next to a single use
TermFreeTwice == App(Abs("x", Var("x")), App(Var("u"), Var("u")))
\* (\x.(\k.x) x) (f a): a shared application one copy of which is dropped
TermFanStrip == App(Abs("x", App(Abs("k", Var("x")), Var("x"))), App(Var("f"), Var("a")))
\* (\x.(\y.y) x) z
TermNest == App(Abs("x", App(Abs("y", Var("y")), Var("x"))), Var("z"))

(***************************************************************************)
(* getExpressionType (ast.ts): the discipline of a term.                   *)
(***************************************************************************)
\* The visit of getExpressionType threads one mutable Map (boundVars) and the
\* two flags; st = [bv, sharing, erasure].
RECURSIVE visit(_, _)
visit(node, st) ==
    IF node.type = "abs" THEN
        LET st1 == [st EXCEPT !.bv = (node.name :> 0) @@ st.bv]
            st2 == visit(node.body, st1)
            count == st2.bv[node.name]
        IN  IF count = 0 THEN [st2 EXCEPT !.erasure = TRUE]
            ELSE IF count > 1 THEN [st2 EXCEPT !.sharing = TRUE]
            ELSE st2
    ELSE IF node.type = "app" THEN
        visit(node.arg, visit(node.func, st))
    ELSE
        IF node.name \in DOMAIN st.bv THEN
            LET newCount == st.bv[node.name] + 1
                st1 == [st EXCEPT !.bv = (node.name :> newCount) @@ st.bv]
            IN  IF newCount > 1 THEN [st1 EXCEPT !.sharing = TRUE] ELSE st1
        ELSE st

getExpressionType(astNode) ==
    LET r == visit(astNode, [bv |-> <<>>, sharing |-> FALSE, erasure |-> FALSE])
    IN  IF r.sharing THEN (IF r.erasure THEN "full" ELSE "relevant")
        ELSE (IF r.erasure THEN "affine" ELSE "linear")

\* A discipline permits a term when it allows the erasure and the sharing
\* the term needs.
Permits(sys, need) ==
    \/ sys = "full"
    \/ sys = need
    \/ need = "linear"

(***************************************************************************)
(* Port-graph model.                                                       *)
(***************************************************************************)
Null == <<>>                                   \* no node (a hole of a ports array)
NullPort == [node |-> Null, port |-> 0]
NP(n, p) == [node |-> n, port |-> p]           \* NodePort

\* Labels are strings.  A replicator label is a decimal level optionally
\* followed by "*"; it is kept as the number and the marker.
TextLabel(s) == [text |-> s, num |-> 0, star |-> FALSE]
NoLabel == TextLabel("undefined")

formatRepLabel(level, status) ==
    IF status = "unknown" THEN [text |-> "#", num |-> level, star |-> TRUE]
    ELSE [text |-> "#", num |-> level, star |-> FALSE]

parseRepLabelNoLevel(label) ==
    IF label.star THEN [level |-> 0, status |-> "unknown"]
    ELSE [level |-> 0, status |-> "unpaired"]

\* A parse that drops the level.
parseRepLabel(label) ==
    IF label.star THEN [level |-> label.num, status |-> "unknown"]
    ELSE [level |-> label.num, status |-> "unpaired"]

NewNode(t, l, lds) ==
    [type |-> t, label |-> l, ports |-> <<>>, levelDeltas |-> lds,
     keep |-> FALSE, isToBeMerged |-> FALSE]

IsRep(t) == t \in {"rep-in", "rep-out"}        \* type.startsWith("rep")

\* array[k] = v of JavaScript: extends the array, leaving holes, when k is
\* beyond its end.
PutAt(s, k, v) ==
    IF k + 1 <= Len(s) THEN [s EXCEPT ![k + 1] = v]
    ELSE s \o [j \in 1..(k - Len(s)) |-> NullPort] \o <<v>>

\* node.ports[i]
P(N, n, i) == N[n].ports[i + 1]

reciprocal(N, nodePort) == P(N, nodePort.node, nodePort.port)

link(N, a, b) ==
    LET N1 == [N EXCEPT ![a.node].ports = PutAt(@, a.port, b)]
    IN  [N1 EXCEPT ![b.node].ports = PutAt(@, b.port, a)]

\* removeFromArrayIf(graph, (n) => n \in S)
RemoveNodes(order, S) == SelectSeq(order, LAMBDA n : n \notin S)

\* Drop the i-th element (1-based) of a sequence.
DropAt(s, i) == [j \in 1..(Len(s) - 1) |-> IF j < i THEN s[j] ELSE s[j + 1]]

SeqToSet(s) == {s[i] : i \in 1..Len(s)}

(***************************************************************************)
(* Term compiler: addAstNodeToGraph and init.                              *)
(* A compile state is [order, nodes, vars, next]; vars is the Map of the   *)
(* code, next the number of node objects created so far.                   *)
(***************************************************************************)
RECURSIVE addAstNodeToGraph(_, _, _, _)
\* A compiler whose second and later occurrences of a variable carry a
\* level delta one too high.
addAstNodeToGraphLateDelta(astNode, st, level, rel) ==
    IF astNode.type = "abs" THEN
        LET eraser == <<st.next>>
            node == <<st.next + 1>>
            N1 == (eraser :> NewNode("era", TextLabel("era"), <<>>)) @@
                  (node :> NewNode("abs", TextLabel(astNode.name), <<>>)) @@ st.nodes
            N2 == link(N1, NP(eraser, 0), NP(node, 2))
            hasOrig == astNode.name \in DOMAIN st.vars
            vars1 == (astNode.name :> [level |-> level, nodePort |-> NP(node, 2)]) @@ st.vars
            r == addAstNodeToGraph(astNode.body,
                    [order |-> st.order \o <<eraser, node>>, nodes |-> N2,
                     vars |-> vars1, next |-> st.next + 2], level, rel)
            N3 == link(r.st.nodes, r.port, NP(node, 1))
            vars2 == IF hasOrig
                     THEN (astNode.name :> st.vars[astNode.name]) @@ r.st.vars
                     ELSE [k \in (DOMAIN r.st.vars) \ {astNode.name} |-> r.st.vars[k]]
        IN  [st |-> [r.st EXCEPT !.nodes = N3, !.vars = vars2], port |-> NP(node, 0)]
    ELSE IF astNode.type = "app" THEN
        LET node == <<st.next>>
            N1 == (node :> NewNode("app", TextLabel("@"), <<>>)) @@ st.nodes
            r1 == addAstNodeToGraph(astNode.func,
                    [st EXCEPT !.order = Append(@, node), !.nodes = N1, !.next = @ + 1],
                    level, rel)
            N2 == link(r1.st.nodes, r1.port, NP(node, 0))
            r2 == addAstNodeToGraph(astNode.arg, [r1.st EXCEPT !.nodes = N2], level + 1, rel)
            N3 == link(r2.st.nodes, r2.port, NP(node, 2))
        IN  [st |-> [r2.st EXCEPT !.nodes = N3], port |-> NP(node, 1)]
    ELSE
        IF astNode.name \in DOMAIN st.vars THEN
            LET varData == st.vars[astNode.name]
                destNodePort == reciprocal(st.nodes, varData.nodePort)
            IN  IF st.nodes[destNodePort.node].type = "era" THEN
                    LET node == <<st.next>>
                        lbl == IF rel THEN formatRepLabel(0, "unpaired")
                               ELSE formatRepLabel(varData.level + 1, "unpaired")
                        N1 == (node :> NewNode("rep-in", lbl, <<level - (varData.level + 1)>>))
                              @@ st.nodes
                        N2 == link(N1, varData.nodePort, NP(node, 0))
                    IN  [st |-> [st EXCEPT
                                   !.order = Append(RemoveNodes(@, {destNodePort.node}), node),
                                   !.nodes = N2, !.next = @ + 1],
                         port |-> NP(node, 1)]
                ELSE
                    LET rep == destNodePort.node
                        N1 == [st.nodes EXCEPT
                                 ![rep].levelDeltas = Append(@, level - varData.level)]
                    IN  [st |-> [st EXCEPT !.nodes = N1],
                         port |-> NP(rep, Len(st.nodes[rep].ports))]
        ELSE
            LET node == <<st.next>>
                rep == <<st.next + 1>>
                N1 == (node :> NewNode("var", TextLabel(astNode.name), <<>>)) @@
                      (rep :> NewNode("rep-in", formatRepLabel(0, "unpaired"), <<level - 1>>))
                      @@ st.nodes
                N2 == link(N1, NP(node, 0), NP(rep, 0))
            IN  [st |-> [st EXCEPT
                           !.order = @ \o <<node, rep>>, !.nodes = N2, !.next = @ + 2,
                           !.vars = (astNode.name :> [level |-> 0, nodePort |-> NP(node, 0)]) @@ @],
                 port |-> NP(rep, 1)]

addAstNodeToGraph(astNode, st, level, rel) ==
    IF astNode.type = "abs" THEN
        LET eraser == <<st.next>>
            node == <<st.next + 1>>
            N1 == (eraser :> NewNode("era", TextLabel("era"), <<>>)) @@
                  (node :> NewNode("abs", TextLabel(astNode.name), <<>>)) @@ st.nodes
            N2 == link(N1, NP(eraser, 0), NP(node, 2))
            hasOrig == astNode.name \in DOMAIN st.vars
            vars1 == (astNode.name :> [level |-> level, nodePort |-> NP(node, 2)]) @@ st.vars
            r == addAstNodeToGraph(astNode.body,
                    [order |-> st.order \o <<eraser, node>>, nodes |-> N2,
                     vars |-> vars1, next |-> st.next + 2], level, rel)
            N3 == link(r.st.nodes, r.port, NP(node, 1))
            vars2 == IF hasOrig
                     THEN (astNode.name :> st.vars[astNode.name]) @@ r.st.vars
                     ELSE [k \in (DOMAIN r.st.vars) \ {astNode.name} |-> r.st.vars[k]]
        IN  [st |-> [r.st EXCEPT !.nodes = N3, !.vars = vars2], port |-> NP(node, 0)]
    ELSE IF astNode.type = "app" THEN
        LET node == <<st.next>>
            N1 == (node :> NewNode("app", TextLabel("@"), <<>>)) @@ st.nodes
            r1 == addAstNodeToGraph(astNode.func,
                    [st EXCEPT !.order = Append(@, node), !.nodes = N1, !.next = @ + 1],
                    level, rel)
            N2 == link(r1.st.nodes, r1.port, NP(node, 0))
            r2 == addAstNodeToGraph(astNode.arg, [r1.st EXCEPT !.nodes = N2], level + 1, rel)
            N3 == link(r2.st.nodes, r2.port, NP(node, 2))
        IN  [st |-> [r2.st EXCEPT !.nodes = N3], port |-> NP(node, 1)]
    ELSE
        IF astNode.name \in DOMAIN st.vars THEN
            LET varData == st.vars[astNode.name]
                destNodePort == reciprocal(st.nodes, varData.nodePort)
            IN  IF st.nodes[destNodePort.node].type = "era" THEN
                    LET node == <<st.next>>
                        lbl == IF rel THEN formatRepLabel(0, "unpaired")
                               ELSE formatRepLabel(varData.level + 1, "unpaired")
                        N1 == (node :> NewNode("rep-in", lbl, <<level - (varData.level + 1)>>))
                              @@ st.nodes
                        N2 == link(N1, varData.nodePort, NP(node, 0))
                    IN  [st |-> [st EXCEPT
                                   !.order = Append(RemoveNodes(@, {destNodePort.node}), node),
                                   !.nodes = N2, !.next = @ + 1],
                         port |-> NP(node, 1)]
                ELSE
                    LET rep == destNodePort.node
                        N1 == [st.nodes EXCEPT
                                 ![rep].levelDeltas = Append(@, level - varData.level - 1)]
                    IN  [st |-> [st EXCEPT !.nodes = N1],
                         port |-> NP(rep, Len(st.nodes[rep].ports))]
        ELSE
            LET node == <<st.next>>
                rep == <<st.next + 1>>
                N1 == (node :> NewNode("var", TextLabel(astNode.name), <<>>)) @@
                      (rep :> NewNode("rep-in", formatRepLabel(0, "unpaired"), <<level - 1>>))
                      @@ st.nodes
                N2 == link(N1, NP(node, 0), NP(rep, 0))
            IN  [st |-> [st EXCEPT
                           !.order = @ \o <<node, rep>>, !.nodes = N2, !.next = @ + 2,
                           !.vars = (astNode.name :> [level |-> 0, nodePort |-> NP(node, 0)]) @@ @],
                 port |-> NP(rep, 1)]

\* The splice pass shared by init and the final step: every replicator of
\* the graph (in array order) that meets the criterion has its two
\* neighbours linked and is removed.
SpliceReps(order, nodes, removeAllReps) ==
    LET acc[i \in 0..Len(order)] ==
            IF i = 0 THEN [nodes |-> nodes, rm |-> {}]
            ELSE LET prev == acc[i - 1]
                     n == order[i]
                     rec == prev.nodes[n]
                 IN  IF IsRep(rec.type) /\
                        (removeAllReps \/
                           (Len(rec.ports) = 2 /\ rec.levelDeltas[1] = 0))
                     THEN [nodes |-> link(prev.nodes, rec.ports[1], rec.ports[2]),
                           rm |-> prev.rm \cup {n}]
                     ELSE prev
        res == acc[Len(order)]
    IN  [order |-> RemoveNodes(order, res.rm), nodes |-> res.nodes]

\* The graph that init holds once the root is linked, before the splice
\* pass.
Compiled(astNode, rel) ==
    LET r == addAstNodeToGraph(astNode,
                [order |-> <<>>, nodes |-> <<>>, vars |-> <<>>, next |-> 1], 0, rel)
        rootNode == <<r.st.next>>
        N1 == (rootNode :> [NewNode("root", TextLabel("root"), <<>>)
                               EXCEPT !.ports = <<r.port>>]) @@ r.st.nodes
    IN  [order |-> Append(r.st.order, rootNode), nodes |-> link(N1, r.port, NP(rootNode, 0))]

\* init that removes every replicator under the linear and affine
\* disciplines, whatever the number of its ports.
initRemoveAllReps(astNode, sys, rel) ==
    LET c == Compiled(astNode, rel)
    IN  SpliceReps(c.order, c.nodes, sys \in {"linear", "affine"})

\* init: the graph of a term.
init(astNode, sys, rel) ==
    LET r == addAstNodeToGraph(astNode,
                [order |-> <<>>, nodes |-> <<>>, vars |-> <<>>, next |-> 1], 0, rel)
        rootNode == <<r.st.next>>
        N1 == (rootNode :> [NewNode("root", TextLabel("root"), <<>>)
                               EXCEPT !.ports = <<r.port>>]) @@ r.st.nodes
        N2 == link(N1, r.port, NP(rootNode, 0))
        order == Append(r.st.order, rootNode)
        removeAllReps ==
            /\ sys \in {"linear", "affine"}
            /\ \A i \in 1..Len(order) :
                  IsRep(N2[order[i]].type) => Len(N2[order[i]].ports) = 2
    IN  SpliceReps(order, N2, removeAllReps)

(***************************************************************************)
(* Rewrite rules.  A rule takes a graph g = [order, nodes] and returns the *)
(* graph with err = "none", or the graph untouched with the message of the *)
(* Error it throws.  Nodes created by a rule are named after the node they *)
(* replace: Fresh(n, tag, i).                                              *)
(***************************************************************************)
CloneTag == 1
EraserTag == 2
FinalTag == 3
FanTag == 4

Fresh(n, tag, i) == n \o <<tag, i>>

Ok(order, nodes) == [order |-> order, nodes |-> nodes, err |-> "none"]
Fail(g, msg) == [order |-> g.order, nodes |-> g.nodes, err |-> msg]

\* Annihilates two interacting nodes
\* The rule with every far end read before the first link.
reduceAnnihilateStatic(g, node) ==
    LET N == g.nodes
        other == P(N, node, 0).node
        n == Len(N[node].ports)
        acc[i \in 0..(n - 1)] ==
            IF i = 0 THEN N
            ELSE link(acc[i - 1], P(N, node, i), P(N, other, i))
    IN  Ok(RemoveNodes(g.order, {node, other}), acc[n - 1])

\* The rule without its second sanity check: the wires of the ports that
\* both nodes have are joined.
reduceAnnihilateAnyArity(g, node) ==
    LET N == g.nodes
        other == P(N, node, 0).node
        n == IF Len(N[node].ports) < Len(N[other].ports)
             THEN Len(N[node].ports) ELSE Len(N[other].ports)
        acc[i \in 0..(n - 1)] ==
            IF i = 0 THEN N
            ELSE LET prev == acc[i - 1]
                 IN  link(prev, P(prev, node, i), P(prev, other, i))
    IN  IF P(N, other, 0).node # node THEN Fail(g, "nodes are not interacting!")
        ELSE Ok(RemoveNodes(g.order, {node, other}), acc[n - 1])

\* A rule that leaves the pair in place.
reduceAnnihilateKeep(g, node) == Ok(g.order, g.nodes)

reduceAnnihilate(g, node) ==
    LET N == g.nodes
        other == P(N, node, 0).node
        n == Len(N[node].ports)
        acc[i \in 0..(n - 1)] ==
            IF i = 0 THEN N
            ELSE LET prev == acc[i - 1]
                 IN  link(prev, P(prev, node, i), P(prev, other, i))
    IN  IF P(N, other, 0).node # node THEN Fail(g, "nodes are not interacting!")
        ELSE IF Len(N[node].ports) # Len(N[other].ports)
             THEN Fail(g, "nodes have different number of ports!")
        ELSE Ok(RemoveNodes(g.order, {node, other}), acc[n - 1])

\* An erasure that adds no eraser: the wires of the auxiliary ports dangle.
reduceEraseNoErasers(g, node) ==
    Ok(RemoveNodes(g.order, {node, P(g.nodes, node, 0).node}), g.nodes)

reduceErase(g, node) ==
    LET N == g.nodes
        eraser == P(N, node, 0).node
        n == Len(N[node].ports)
        newEraser(i) == Fresh(node, EraserTag, i)
        acc[i \in 0..(n - 1)] ==
            IF i = 0 THEN N
            ELSE LET prev == (newEraser(i) :> NewNode("era", NoLabel, <<>>)) @@ acc[i - 1]
                 IN  link(prev, NP(newEraser(i), 0), P(prev, node, i))
    IN  IF P(N, eraser, 0).node # node THEN Fail(g, "nodes are not interacting!")
        ELSE IF N[eraser].type # "era" THEN Fail(g, "node is not an eraser!")
        ELSE Ok(RemoveNodes(g.order \o [i \in 1..(n - 1) |-> newEraser(i)], {node, eraser}),
                acc[n - 1])

\* The clones of reduceCommute: otherClones[i] copies `other` for auxiliary
\* port i of `node`, nodeClones[j] copies `node` for auxiliary port j of `other`.
otherCloneOf(N, node, i) == Fresh(P(N, node, 0).node, CloneTag, i)
nodeCloneOf(node, j) == Fresh(node, CloneTag, j)

\* A commutation that wires every clone of `node` to the first clone of
\* `other` only.
reduceCommuteOneWire(g, node) ==
    LET N == g.nodes
        other == P(N, node, 0).node
        k == Len(N[node].ports) - 1
        m == Len(N[other].ports) - 1
        oc(i) == otherCloneOf(N, node, i)
        nc(j) == nodeCloneOf(node, j)
        a1[i \in 0..k] ==
            IF i = 0 THEN N
            ELSE LET prev == (oc(i) :> [N[other] EXCEPT !.ports = <<>>]) @@ a1[i - 1]
                 IN  link(prev, NP(oc(i), 0), P(prev, node, i))
        a2[j \in 0..m] ==
            IF j = 0 THEN a1[k]
            ELSE LET prev == (nc(j) :> [N[node] EXCEPT !.ports = <<>>]) @@ a2[j - 1]
                 IN  link(prev, NP(nc(j), 0), P(prev, other, j))
        a3[t \in 0..m] ==
            IF t = 0 THEN a2[m]
            ELSE link(a3[t - 1], NP(nc(t), 1), NP(oc(1), t))
        unshifted == [t \in 1..(k + m) |->
                        IF t <= m THEN nc(m + 1 - t) ELSE oc(k + m + 1 - t)]
    IN  [order |-> RemoveNodes(unshifted \o g.order, {node, other}),
         nodes |-> a3[m], err |-> "none",
         nodeClones |-> [j \in 1..m |-> nc(j)],
         otherClones |-> [i \in 1..k |-> oc(i)]]

reduceCommute(g, node) ==
    LET N == g.nodes
        other == P(N, node, 0).node
        k == Len(N[node].ports) - 1
        m == Len(N[other].ports) - 1
        oc(i) == otherCloneOf(N, node, i)
        nc(j) == nodeCloneOf(node, j)
        \* copies of `other`, each linked to the far end of node.ports[i]
        a1[i \in 0..k] ==
            IF i = 0 THEN N
            ELSE LET prev == (oc(i) :> [N[other] EXCEPT !.ports = <<>>]) @@ a1[i - 1]
                 IN  link(prev, NP(oc(i), 0), P(prev, node, i))
        \* copies of `node`, each linked to the far end of other.ports[j]
        a2[j \in 0..m] ==
            IF j = 0 THEN a1[k]
            ELSE LET prev == (nc(j) :> [N[node] EXCEPT !.ports = <<>>]) @@ a2[j - 1]
                 IN  link(prev, NP(nc(j), 0), P(prev, other, j))
        \* the k * m wires between the clones, in the order of the two loops
        a3[t \in 0..(k * m)] ==
            IF t = 0 THEN a2[m]
            ELSE LET i == ((t - 1) \div k) + 1      \* index of the node clone
                     j == ((t - 1) % k) + 1         \* index of the other clone
                 IN  link(a3[t - 1], NP(nc(i), j), NP(oc(j), i))
        unshifted == [t \in 1..(k + m) |->
                        IF t <= m THEN nc(m + 1 - t) ELSE oc(k + m + 1 - t)]
    IN  IF P(N, other, 0).node # node
        THEN [order |-> g.order, nodes |-> N, err |-> "nodes are not interacting!",
              nodeClones |-> <<>>, otherClones |-> <<>>]
        ELSE [order |-> RemoveNodes(unshifted \o g.order, {node, other}),
              nodes |-> a3[k * m], err |-> "none",
              nodeClones |-> [j \in 1..m |-> nc(j)],
              otherClones |-> [i \in 1..k |-> oc(i)]]

\* Reduces a fan and the node connected to its first auxiliary port (parent port).
reduceAuxFan(g, node, rel) ==
    LET N == g.nodes
        firstAuxNode == P(N, node, 1).node
    IN  IF N[firstAuxNode].type = "era" THEN
            LET newEraser0 == Fresh(node, FanTag, 0)
                newEraser1 == Fresh(node, FanTag, 1)
                N1 == (newEraser0 :> NewNode("era", NoLabel, <<>>)) @@ N
                N2 == link(N1, NP(newEraser0, 0), P(N1, node, 0))
                N3 == (newEraser1 :> NewNode("era", NoLabel, <<>>)) @@ N2
                N4 == link(N3, NP(newEraser1, 0), P(N3, node, 2))
            IN  Ok(RemoveNodes(g.order \o <<newEraser0, newEraser1>>, {node, firstAuxNode}), N4)
        ELSE IF IsRep(N[firstAuxNode].type) THEN
            LET origPorts == N[node].ports
                N1 == link(N, NP(node, 0), origPorts[2])
                N2 == link(N1, NP(node, 1), origPorts[3])
                N3 == link(N2, NP(node, 2), origPorts[1])
                c == reduceCommute([order |-> g.order, nodes |-> N3], node)
                N4 == IF rel
                      THEN [c.nodes EXCEPT ![c.otherClones[1]].label =
                              formatRepLabel(
                                parseRepLabel(c.nodes[c.otherClones[2]].label).level + 1,
                                "unknown")]
                      ELSE c.nodes
                nn == Len(c.nodeClones)
                back3[i \in 0..nn] ==
                    IF i = 0 THEN N4
                    ELSE LET prev == back3[i - 1]
                             nodeClone == c.nodeClones[i]
                             op == prev[nodeClone].ports
                             M1 == link(prev, NP(nodeClone, 0), op[3])
                             M2 == link(M1, NP(nodeClone, 1), op[1])
                         IN  link(M2, NP(nodeClone, 2), op[2])
            IN  IF c.err # "none" THEN Fail([order |-> g.order, nodes |-> N3], c.err)
                ELSE Ok(c.order, back3[nn])
        ELSE Ok(g.order, N)

(***************************************************************************)
(* Redexes.  A redex is {a, b, optimal, reduce}; the closure `reduce` is   *)
(* kept as the values it captured:                                         *)
(*   kind "eraseOther"    reduceErase(node.ports[0].node, graph)           *)
(*   kind "erase"         reduceErase(node, graph)                         *)
(*   kind "annihilate"    reduceAnnihilate(node, graph)                    *)
(*   kind "commuteFanRep" rep = node, level = i1                           *)
(*   kind "commuteRepRep" a = node, b = other, top = i1, bottom = i2,      *)
(*                        topFlag = s1, bottomFlag = s2                    *)
(*   kind "merge"         firstReplicator = node, secondReplicator = other,*)
(*                        secondReplicatorPort = i1, levelDeltaBetween = i2*)
(*   kind "auxFanOther"   reduceAuxFan(node.ports[0].node, graph, rel)     *)
(*   kind "auxFan"        reduceAuxFan(node, graph, rel)                   *)
(*   kind "repDecay"      node = the replicator, p = (other, i1)           *)
(*   kind "mergeUndefined" a merge whose levelDeltaBetween is undefined    *)
(***************************************************************************)
Thunk(kind, node, other, i1, i2, s1, s2) ==
    [kind |-> kind, node |-> node, other |-> other, i1 |-> i1, i2 |-> i2,
     s1 |-> s1, s2 |-> s2]

SamePair(r, a, b) == (r.a = a /\ r.b = b) \/ (r.a = b /\ r.b = a)

\* Returns the index of the redex that contains the pair of nodes (a, b),
\* or 0 (undefined).
\* A lookup that finds no redex.
getRedexNone(a, b, rs) == 0

getRedex(a, b, rs) ==
    IF \E i \in 1..Len(rs) : SamePair(rs[i], a, b)
    THEN CHOOSE i \in 1..Len(rs) :
            SamePair(rs[i], a, b) /\ \A j \in 1..(i - 1) : ~SamePair(rs[j], a, b)
    ELSE 0

createRedexNoDedupe(rs, a, b, optimal, reduce) ==
    Append(rs, [a |-> a, b |-> b, optimal |-> optimal, reduce |-> reduce])

createRedex(rs, a, b, optimal, reduce) ==
    IF \E i \in 1..Len(rs) : SamePair(rs[i], a, b) THEN rs
    ELSE Append(rs, [a |-> a, b |-> b, optimal |-> optimal, reduce |-> reduce])

\* One iteration of the loop of the linear system.
\* The iteration without the skip of variables and of the root.
ScanLinearNodeNoSkip(rs, N, node) ==
    LET p0 == P(N, node, 0)
    IN  IF p0.port = 0
        THEN createRedex(rs, node, p0.node, TRUE,
                         Thunk("annihilate", node, Null, 0, 0, "", ""))
        ELSE rs

ScanLinearNode(rs, N, node) ==
    LET p0 == P(N, node, 0)
        other == p0.node
    IN  IF p0.port = 0 THEN
            IF N[node].type = "var" \/ N[other].type = "var"
               \/ N[node].type = "root" \/ N[other].type = "root"
            THEN rs
            ELSE createRedex(rs, node, other, TRUE,
                             Thunk("annihilate", node, Null, 0, 0, "", ""))
        ELSE rs

\* The same iteration with the fan replication looked for at the second
\* auxiliary port of the application (ports[2]).
ScanNodeArgumentSlot(acc, node) ==
    LET N == acc.nodes
        rs == acc.rs
        p0 == P(N, node, 0)
        other == p0.node
        t == N[node].type
        ot == N[other].type
    IN  IF p0.port = 0 THEN
            IF t = "var" \/ ot = "var" \/ t = "root" \/ ot = "root" THEN acc
            ELSE IF t = "era" THEN
                [acc EXCEPT !.rs = createRedex(rs, node, other, FALSE,
                                     Thunk("eraseOther", node, Null, 0, 0, "", ""))]
            ELSE IF ot = "era" THEN
                [acc EXCEPT !.rs = createRedex(rs, node, other, FALSE,
                                     Thunk("erase", node, Null, 0, 0, "", ""))]
            ELSE IF t = "abs" /\ ot = "app" THEN
                [acc EXCEPT !.rs = createRedex(rs, node, other, FALSE,
                                     Thunk("annihilate", node, Null, 0, 0, "", ""))]
            ELSE IF IsRep(t) /\ ot \in {"abs", "app"} THEN
                [acc EXCEPT !.rs = createRedex(rs, node, other, FALSE,
                                     Thunk("commuteFanRep", node, Null,
                                           parseRepLabel(N[node].label).level, 0, "", ""))]
            ELSE IF IsRep(t) /\ IsRep(ot) THEN
                LET top == parseRepLabel(N[node].label)
                    bottom == parseRepLabel(N[other].label)
                IN  IF top.level = bottom.level THEN
                        [acc EXCEPT !.rs = createRedex(rs, node, other, FALSE,
                                     Thunk("annihilate", other, Null, 0, 0, "", ""))]
                    ELSE
                        [acc EXCEPT !.rs = createRedex(rs, node, other, FALSE,
                                     Thunk("commuteRepRep", node, other, top.level,
                                           bottom.level, top.status, bottom.status))]
            ELSE acc
        ELSE IF IsRep(t) /\ IsRep(ot) /\ parseRepLabel(N[other].label).status = "unpaired" THEN
            LET firstReplicator == other
                secondReplicator == node
                secondReplicatorPort == p0.port
                levelDeltaBetween == N[firstReplicator].levelDeltas[secondReplicatorPort]
                diff == parseRepLabel(N[secondReplicator].label).level
                        - parseRepLabel(N[firstReplicator].label).level
                secondUnpaired ==
                    \/ parseRepLabel(N[secondReplicator].label).status = "unpaired"
                    \/ (0 <= diff /\ diff <= levelDeltaBetween)
            IN  IF secondUnpaired THEN
                    [rs |-> createRedex(rs, firstReplicator, secondReplicator, FALSE,
                                Thunk("merge", firstReplicator, secondReplicator,
                                      secondReplicatorPort, levelDeltaBetween, "", "")),
                     nodes |-> [N EXCEPT ![firstReplicator].isToBeMerged = TRUE]]
                ELSE acc
        ELSE IF IsRep(t) /\ ot = "app" /\ p0.port = 2 THEN
            [acc EXCEPT !.rs = createRedex(rs, node, other, FALSE,
                                 Thunk("auxFanOther", node, Null, 0, 0, "", ""))]
        ELSE acc

\* The same iteration with a pair of two erasers created optimal.
ScanNodeEraserPairsOptimal(acc, node) ==
    LET N == acc.nodes
        rs == acc.rs
        p0 == P(N, node, 0)
        other == p0.node
        t == N[node].type
        ot == N[other].type
    IN  IF p0.port = 0 THEN
            IF t = "var" \/ ot = "var" \/ t = "root" \/ ot = "root" THEN acc
            ELSE IF t = "era" THEN
                [acc EXCEPT !.rs = createRedex(rs, node, other, ot = "era",
                                     Thunk("eraseOther", node, Null, 0, 0, "", ""))]
            ELSE IF ot = "era" THEN
                [acc EXCEPT !.rs = createRedex(rs, node, other, FALSE,
                                     Thunk("erase", node, Null, 0, 0, "", ""))]
            ELSE IF t = "abs" /\ ot = "app" THEN
                [acc EXCEPT !.rs = createRedex(rs, node, other, FALSE,
                                     Thunk("annihilate", node, Null, 0, 0, "", ""))]
            ELSE IF IsRep(t) /\ ot \in {"abs", "app"} THEN
                [acc EXCEPT !.rs = createRedex(rs, node, other, FALSE,
                                     Thunk("commuteFanRep", node, Null,
                                           parseRepLabel(N[node].label).level, 0, "", ""))]
            ELSE IF IsRep(t) /\ IsRep(ot) THEN
                LET top == parseRepLabel(N[node].label)
                    bottom == parseRepLabel(N[other].label)
                IN  IF top.level = bottom.level THEN
                        [acc EXCEPT !.rs = createRedex(rs, node, other, FALSE,
                                     Thunk("annihilate", other, Null, 0, 0, "", ""))]
                    ELSE
                        [acc EXCEPT !.rs = createRedex(rs, node, other, FALSE,
                                     Thunk("commuteRepRep", node, other, top.level,
                                           bottom.level, top.status, bottom.status))]
            ELSE acc
        ELSE IF IsRep(t) /\ IsRep(ot) /\ parseRepLabel(N[other].label).status = "unpaired" THEN
            LET firstReplicator == other
                secondReplicator == node
                secondReplicatorPort == p0.port
                levelDeltaBetween == N[firstReplicator].levelDeltas[secondReplicatorPort]
                diff == parseRepLabel(N[secondReplicator].label).level
                        - parseRepLabel(N[firstReplicator].label).level
                secondUnpaired ==
                    \/ parseRepLabel(N[secondReplicator].label).status = "unpaired"
                    \/ (0 <= diff /\ diff <= levelDeltaBetween)
            IN  IF secondUnpaired THEN
                    [rs |-> createRedex(rs, firstReplicator, secondReplicator, FALSE,
                                Thunk("merge", firstReplicator, secondReplicator,
                                      secondReplicatorPort, levelDeltaBetween, "", "")),
                     nodes |-> [N EXCEPT ![firstReplicator].isToBeMerged = TRUE]]
                ELSE acc
        ELSE IF IsRep(t) /\ ot = "app" /\ p0.port = 1 THEN
            [acc EXCEPT !.rs = createRedex(rs, node, other, FALSE,
                                 Thunk("auxFanOther", node, Null, 0, 0, "", ""))]
        ELSE acc

\* One iteration of the first loop of the affine/relevant/full systems;
\* acc = [rs, nodes] (the loop sets isToBeMerged on nodes).
ScanNode(acc, node) ==
    LET N == acc.nodes
        rs == acc.rs
        p0 == P(N, node, 0)
        other == p0.node
        t == N[node].type
        ot == N[other].type
    IN  IF p0.port = 0 THEN
            IF t = "var" \/ ot = "var" \/ t = "root" \/ ot = "root" THEN acc
            ELSE IF t = "era" THEN
                [acc EXCEPT !.rs = createRedex(rs, node, other, FALSE,
                                     Thunk("eraseOther", node, Null, 0, 0, "", ""))]
            ELSE IF ot = "era" THEN
                [acc EXCEPT !.rs = createRedex(rs, node, other, FALSE,
                                     Thunk("erase", node, Null, 0, 0, "", ""))]
            ELSE IF t = "abs" /\ ot = "app" THEN
                [acc EXCEPT !.rs = createRedex(rs, node, other, FALSE,
                                     Thunk("annihilate", node, Null, 0, 0, "", ""))]
            ELSE IF IsRep(t) /\ ot \in {"abs", "app"} THEN
                [acc EXCEPT !.rs = createRedex(rs, node, other, FALSE,
                                     Thunk("commuteFanRep", node, Null,
                                           parseRepLabel(N[node].label).level, 0, "", ""))]
            ELSE IF IsRep(t) /\ IsRep(ot) THEN
                LET top == parseRepLabel(N[node].label)
                    bottom == parseRepLabel(N[other].label)
                IN  IF top.level = bottom.level THEN
                        [acc EXCEPT !.rs = createRedex(rs, node, other, FALSE,
                                     Thunk("annihilate", other, Null, 0, 0, "", ""))]
                    ELSE
                        [acc EXCEPT !.rs = createRedex(rs, node, other, FALSE,
                                     Thunk("commuteRepRep", node, other, top.level,
                                           bottom.level, top.status, bottom.status))]
            ELSE acc
        ELSE IF IsRep(t) /\ IsRep(ot) /\ parseRepLabel(N[other].label).status = "unpaired" THEN
            LET firstReplicator == other
                secondReplicator == node
                secondReplicatorPort == p0.port
                levelDeltaBetween == N[firstReplicator].levelDeltas[secondReplicatorPort]
                diff == parseRepLabel(N[secondReplicator].label).level
                        - parseRepLabel(N[firstReplicator].label).level
                secondUnpaired ==
                    \/ parseRepLabel(N[secondReplicator].label).status = "unpaired"
                    \/ (0 <= diff /\ diff <= levelDeltaBetween)
            IN  IF secondUnpaired THEN
                    [rs |-> createRedex(rs, firstReplicator, secondReplicator, FALSE,
                                Thunk("merge", firstReplicator, secondReplicator,
                                      secondReplicatorPort, levelDeltaBetween, "", "")),
                     nodes |-> [N EXCEPT ![firstReplicator].isToBeMerged = TRUE]]
                ELSE acc
        ELSE IF IsRep(t) /\ ot = "app" /\ p0.port = 1 THEN
            [acc EXCEPT !.rs = createRedex(rs, node, other, FALSE,
                                 Thunk("auxFanOther", node, Null, 0, 0, "", ""))]
        ELSE acc

rootOf(g) == CHOOSE i \in 1..Len(g.order) :
                 /\ g.nodes[g.order[i]].type = "root"
                 /\ \A j \in 1..(i - 1) : g.nodes[g.order[j]].type # "root"

\* traverse: marks the leftmost-outermost redex as optimal.
\* st = [rs, traversed, found, fan]; fan is firstAuxFanReplication (0 = undefined).
RECURSIVE traverse(_, _, _)
RECURSIVE traverseAux(_, _, _, _)
traverse(N, nodePort, st) ==
    LET node == nodePort.node
        port == nodePort.port
        other == P(N, node, 0).node
        t == N[node].type
        r1 == getRedex(node, other, st.rs)
        isPair == port = 0 /\ P(N, other, 0).node = node
        isReps == IsRep(t) /\ IsRep(N[other].type)
        fan1 == IF st.fan = 0 /\ IsRep(t) /\ N[other].type = "app" /\ P(N, node, 0).port = 1
                THEN r1 ELSE st.fan
        st1 == [st EXCEPT !.fan = fan1]
        st2 == [st1 EXCEPT !.traversed = @ \cup {node}]
    IN  IF (isPair \/ isReps) /\ r1 # 0
        THEN [st EXCEPT !.rs[r1].optimal = TRUE, !.found = TRUE]
        ELSE IF node \in st.traversed THEN st1
        ELSE IF t = "abs" /\ port = 0 THEN
            LET s3 == IF N[P(N, node, 2).node].type = "era"
                      THEN traverse(N, P(N, node, 2), st2) ELSE st2
            IN  IF s3.found THEN s3 ELSE traverse(N, P(N, node, 1), s3)
        ELSE IF t = "app" /\ port = 1 THEN
            LET s3 == traverse(N, P(N, node, 0), st2)
            IN  IF s3.found THEN s3 ELSE traverse(N, P(N, node, 2), s3)
        ELSE IF t = "rep-in" /\ port # 0 THEN traverse(N, P(N, node, 0), st2)
        ELSE IF t = "rep-out" /\ port = 0 THEN traverseAux(N, node, 1, st2)
        ELSE st2

traverseAux(N, node, i, st) ==
    IF i >= Len(N[node].ports) THEN st
    ELSE LET s1 == traverse(N, P(N, node, i), st)
         IN  IF s1.found THEN s1 ELSE traverseAux(N, node, i + 1, s1)

\* A list left in the order of the scan.
SortOptimalFirstUnsorted(rs) == rs

\* redexes.sort((a, b) => a.optimal ? -1 : b.optimal ? 1 : 0): at most one
\* redex is optimal when the sort runs, and the sort is stable.
SortOptimalFirst(rs) ==
    SelectSeq(rs, LAMBDA r : r.optimal) \o SelectSeq(rs, LAMBDA r : ~r.optimal)

\* traverse2: marks certain redexes in the spine as optimal as well.
\* st = [rs, traversed2].
RECURSIVE traverse2(_, _, _)
traverse2(N, nodePort, st) ==
    LET node == nodePort.node
        port == nodePort.port
        other == P(N, node, 0).node
        t == N[node].type
        unknownOrFan(n) == ~IsRep(N[n].type) \/ parseRepLabel(N[n].label).status = "unknown"
        r1 == getRedex(node, other, st.rs)
        st1 == IF port = 0 /\ P(N, other, 0).node = node
                  /\ unknownOrFan(node) /\ unknownOrFan(other) /\ r1 # 0
               THEN [st EXCEPT !.rs[r1].optimal = TRUE] ELSE st
        st2 == [st1 EXCEPT !.traversed2 = @ \cup {node}]
    IN  IF node \in st.traversed2 THEN st1
        ELSE IF t = "abs" /\ port = 0 THEN
            LET s3 == IF N[P(N, node, 2).node].type = "era"
                      THEN traverse2(N, P(N, node, 2), st2) ELSE st2
            IN  traverse2(N, P(N, node, 1), s3)
        ELSE IF t = "app" /\ port = 1 THEN traverse2(N, P(N, node, 0), st2)
        ELSE IF t = "rep-in" /\ port # 0 THEN traverse2(N, P(N, node, 0), st2)
        ELSE st2

\* getRedexes of methods/deltanets.ts: returns the redex list and the nodes
\* (with the isToBeMerged flags the scan sets).
getRedexes(g, sys) ==
    LET n == Len(g.order)
    IN  IF sys = "linear" THEN
            LET acc[i \in 0..n] ==
                    IF i = 0 THEN <<>> ELSE ScanLinearNode(acc[i - 1], g.nodes, g.order[i])
            IN  [rs |-> acc[n], nodes |-> g.nodes]
        ELSE
            LET acc[i \in 0..n] ==
                    IF i = 0 THEN [rs |-> <<>>, nodes |-> g.nodes]
                    ELSE ScanNode(acc[i - 1], g.order[i])
                rootNode == g.order[rootOf(g)]
            IN  Bind(acc[n], LAMBDA scanned :
                Bind(traverse(scanned.nodes, P(scanned.nodes, rootNode, 0),
                              [rs |-> scanned.rs, traversed |-> {}, found |-> FALSE,
                               fan |-> 0]), LAMBDA t1 :
                Bind(SortOptimalFirst(IF ~t1.found /\ t1.fan # 0
                                      THEN [t1.rs EXCEPT ![t1.fan].optimal = TRUE]
                                      ELSE t1.rs), LAMBDA rs2 :
                Bind(traverse2(scanned.nodes, P(scanned.nodes, rootNode, 0),
                               [rs |-> rs2, traversed2 |-> {}]), LAMBDA t2 :
                    [rs |-> t2.rs, nodes |-> scanned.nodes]))))

(***************************************************************************)
(* getRedexes of examples.ts (the variant that marks every applicable rule *)
(* of the highest-priority kinds as optimal).  Each loop over the graph is *)
(* one operator; st = [rs, nodes, flag], flag being the boolean the loop   *)
(* sets.                                                                   *)
(***************************************************************************)
isConnectedToAllErasers(N, node) ==
    \A i \in 1..(Len(N[node].ports) - 1) : N[P(N, node, i).node].type = "era"

isConnectedToSomeErasers(N, node) ==
    \E i \in 1..(Len(N[node].ports) - 1) : N[P(N, node, i).node].type = "era"

\* Eraser active pairs (era-era, era-fan, era-rep, era-FV).
ParEraserPairs(order, N) ==
    LET f[i \in 0..Len(order)] ==
            IF i = 0 THEN [rs |-> <<>>, flag |-> FALSE]
            ELSE LET node == order[i]
                     prev == f[i - 1]
                 IN  IF N[P(N, node, 0).node].type = "era"
                     THEN [rs |-> createRedex(prev.rs, node, P(N, node, 0).node, TRUE,
                                      Thunk("erase", node, Null, 0, 0, "", "")),
                           flag |-> prev.flag \/ N[node].type # "era"]
                     ELSE prev
    IN  f[Len(order)]

\* Fan-fan pairs.
ParFanFan(order, N, rs0) ==
    LET f[i \in 0..Len(order)] ==
            IF i = 0 THEN [rs |-> rs0, flag |-> FALSE]
            ELSE LET node == order[i]
                     prev == f[i - 1]
                 IN  IF /\ N[node].type = "abs"
                        /\ N[P(N, node, 0).node].type = "app"
                        /\ P(N, node, 0).port = 0
                     THEN [rs |-> createRedex(prev.rs, node, P(N, node, 0).node, TRUE,
                                      Thunk("annihilate", node, Null, 0, 0, "", "")),
                           flag |-> TRUE]
                     ELSE prev
    IN  f[Len(order)]

\* Rep-rep annihilation pairs.
ParRepRep(order, N, rs0) ==
    LET f[i \in 0..Len(order)] ==
            IF i = 0 THEN [rs |-> rs0, flag |-> FALSE]
            ELSE LET node == order[i]
                     prev == f[i - 1]
                     other == P(N, node, 0).node
                 IN  IF /\ IsRep(N[node].type)
                        /\ IsRep(N[other].type)
                        /\ P(N, node, 0).port = 0
                        /\ parseRepLabel(N[node].label).level
                             = parseRepLabel(N[other].label).level
                     THEN [rs |-> createRedex(prev.rs, node, other, TRUE,
                                      Thunk("annihilate", node, Null, 0, 0, "", "")),
                           flag |-> TRUE]
                     ELSE prev
    IN  f[Len(order)]

\* Fan decays created optimal whatever else the graph holds.
ParFanDecayAlwaysOptimal(order, N, rs0, fanFanAnnihilations) ==
    LET f[i \in 0..Len(order)] ==
            IF i = 0 THEN [rs |-> rs0, flag |-> FALSE]
            ELSE LET node == order[i]
                     prev == f[i - 1]
                 IN  IF /\ N[node].type \in {"abs", "app"}
                        /\ N[P(N, node, 1).node].type = "era"
                     THEN [rs |-> createRedex(prev.rs, node, P(N, node, 1).node, TRUE,
                                      Thunk("auxFan", node, Null, 0, 0, "", "")),
                           flag |-> TRUE]
                     ELSE prev
    IN  f[Len(order)]

\* Fan decay.
ParFanDecay(order, N, rs0, fanFanAnnihilations) ==
    LET f[i \in 0..Len(order)] ==
            IF i = 0 THEN [rs |-> rs0, flag |-> FALSE]
            ELSE LET node == order[i]
                     prev == f[i - 1]
                 IN  IF /\ N[node].type \in {"abs", "app"}
                        /\ N[P(N, node, 1).node].type = "era"
                     THEN [rs |-> createRedex(prev.rs, node, P(N, node, 1).node,
                                      ~fanFanAnnihilations,
                                      Thunk("auxFan", node, Null, 0, 0, "", "")),
                           flag |-> TRUE]
                     ELSE prev
    IN  f[Len(order)]

\* Rep decay: one redex for each auxiliary eraser; the thunk captures the
\* replicator and the port p = node.ports[i] (other = p.node, i1 = p.port).
ParRepDecay(order, N, rs0, repRepAnnihilations) ==
    LET onPorts(rs, node) ==
            LET ps == N[node].ports
                optimal == \/ ~repRepAnnihilations
                           \/ ps[1].port # 0
                           \/ N[ps[1].node].type = "var"
                h[i \in 0..(Len(ps) - 1)] ==
                    IF i = 0 THEN rs
                    ELSE IF N[ps[i + 1].node].type # "era" THEN h[i - 1]
                    ELSE createRedex(h[i - 1], node, ps[i + 1].node, optimal,
                             Thunk("repDecay", node, ps[i + 1].node, ps[i + 1].port, 0, "", ""))
            IN  h[Len(ps) - 1]
        f[i \in 0..Len(order)] ==
            IF i = 0 THEN [rs |-> rs0, flag |-> FALSE]
            ELSE LET node == order[i]
                     prev == f[i - 1]
                 IN  IF /\ IsRep(N[node].type)
                        /\ \/ /\ parseRepLabel(N[node].label).status = "unpaired"
                              /\ isConnectedToSomeErasers(N, node)
                           \/ isConnectedToAllErasers(N, node)
                     THEN [rs |-> onPorts(prev.rs, node), flag |-> TRUE]
                     ELSE prev
    IN  f[Len(order)]

\* Unpaired replicator mergings; st = [rs, nodes, flag] (the loop sets
\* isToBeMerged).  With secondReplicatorPort = 0 the level delta between the
\* two is levelDeltas[-1], undefined: thunk kind "mergeUndefined".
ParMerges(order, N0, rs0, replicatorCanonicalizationOptimal) ==
    LET f[i \in 0..Len(order)] ==
            IF i = 0 THEN [rs |-> rs0, nodes |-> N0, flag |-> FALSE]
            ELSE LET node == order[i]
                     prev == f[i - 1]
                     N == prev.nodes
                     firstReplicator == P(N, node, 0).node
                     secondReplicator == node
                     secondReplicatorPort == P(N, node, 0).port
                     defined == /\ secondReplicatorPort >= 1
                                /\ secondReplicatorPort <= Len(N[firstReplicator].levelDeltas)
                     levelDeltaBetween ==
                         IF defined THEN N[firstReplicator].levelDeltas[secondReplicatorPort]
                         ELSE 0
                     diff == parseRepLabel(N[secondReplicator].label).level
                             - parseRepLabel(N[firstReplicator].label).level
                     secondUnpaired ==
                         \/ parseRepLabel(N[secondReplicator].label).status = "unpaired"
                         \/ (defined /\ 0 <= diff /\ diff <= levelDeltaBetween)
                 IN  IF /\ IsRep(N[node].type)
                        /\ IsRep(N[firstReplicator].type)
                        /\ parseRepLabel(N[firstReplicator].label).status = "unpaired"
                        /\ secondUnpaired
                     THEN [rs |-> createRedex(prev.rs, firstReplicator, secondReplicator,
                                      replicatorCanonicalizationOptimal,
                                      Thunk(IF defined THEN "merge" ELSE "mergeUndefined",
                                            firstReplicator, secondReplicator,
                                            secondReplicatorPort, levelDeltaBetween, "", "")),
                           nodes |-> [N EXCEPT ![firstReplicator].isToBeMerged = TRUE],
                           flag |-> TRUE]
                     ELSE prev
    IN  f[Len(order)]

\* Commutations (fan-rep, rep-rep).
ParCommutations(order, N, rs0, commutationsOptimal) ==
    LET f[i \in 0..Len(order)] ==
            IF i = 0 THEN [rs |-> rs0, flag |-> FALSE]
            ELSE LET node == order[i]
                     prev == f[i - 1]
                     other == P(N, node, 0).node
                     optimal == commutationsOptimal /\ ~N[node].isToBeMerged
                 IN  IF P(N, node, 0).port # 0 THEN prev
                     ELSE IF IsRep(N[node].type) /\ N[other].type \in {"abs", "app"} THEN
                         [rs |-> createRedex(prev.rs, node, other, optimal,
                                     Thunk("commuteFanRep", node, Null,
                                           parseRepLabel(N[node].label).level, 0, "", "")),
                          flag |-> TRUE]
                     ELSE IF IsRep(N[node].type) /\ IsRep(N[other].type) THEN
                         LET top == parseRepLabel(N[node].label)
                             bottom == parseRepLabel(N[other].label)
                         IN  IF top.level = bottom.level THEN
                                 [rs |-> createRedex(prev.rs, node, other, TRUE,
                                             Thunk("annihilate", other, Null, 0, 0, "", "")),
                                  flag |-> TRUE]
                             ELSE
                                 [rs |-> createRedex(prev.rs, node, other, optimal,
                                             Thunk("commuteRepRep", node, other, top.level,
                                                   bottom.level, top.status, bottom.status)),
                                  flag |-> TRUE]
                     ELSE prev
    IN  f[Len(order)]

\* Aux fan replication.
ParAuxFan(order, N, rs0, auxFanReplicationOptimal) ==
    LET f[i \in 0..Len(order)] ==
            IF i = 0 THEN [rs |-> rs0, flag |-> FALSE]
            ELSE LET node == order[i]
                     prev == f[i - 1]
                     rep == P(N, node, 1).node
                 IN  IF /\ N[node].type \in {"abs", "app"}
                        /\ IsRep(N[rep].type)
                        /\ P(N, node, 1).port = 0
                     THEN [rs |-> createRedex(prev.rs, node, rep,
                                      auxFanReplicationOptimal /\ ~N[rep].isToBeMerged,
                                      Thunk("auxFan", node, Null, 0, 0, "", "")),
                           flag |-> TRUE]
                     ELSE prev
    IN  f[Len(order)]

\* getRedexes of examples.ts: returns the redex list and the nodes (with
\* the isToBeMerged flags the scan sets).
getRedexesParallel(g) ==
    Bind(ParEraserPairs(g.order, g.nodes), LAMBDA era :
    Bind(ParFanFan(g.order, g.nodes, era.rs), LAMBDA fanFan :
    Bind(ParRepRep(g.order, g.nodes, fanFan.rs), LAMBDA repRep :
    Bind(ParFanDecay(g.order, g.nodes, repRep.rs, fanFan.flag), LAMBDA fanDecay :
    Bind(ParRepDecay(g.order, g.nodes, fanDecay.rs, repRep.flag), LAMBDA repDecay :
    Bind(/\ ~fanDecay.flag /\ ~repDecay.flag /\ ~era.flag
         /\ ~fanFan.flag /\ ~repRep.flag, LAMBDA canonOptimal :
    Bind(ParMerges(g.order, g.nodes, repDecay.rs, canonOptimal), LAMBDA merges :
    Bind(ParCommutations(g.order, merges.nodes, merges.rs, canonOptimal), LAMBDA comm :
    Bind(ParAuxFan(g.order, merges.nodes, comm.rs, ~comm.flag /\ canonOptimal), LAMBDA auxFan :
        [rs |-> auxFan.rs, nodes |-> merges.nodes])))))))))

(***************************************************************************)
(* The thunks.                                                             *)
(***************************************************************************)
Min(a, b) == IF a < b THEN a ELSE b

\* array.splice(k, 1, ...items) with a 0-based k.
Splice1(s, k, items) ==
    LET k0 == Min(k, Len(s))
    IN  SubSeq(s, 1, k0) \o items \o SubSeq(s, k0 + 2, Len(s))

\* The permutation of a stable ascending sort: the place of element i.
PlaceOf(d, i) ==
    Cardinality({j \in 1..Len(d) : d[j] < d[i]})
    + Cardinality({j \in 1..(i - 1) : d[j] = d[i]}) + 1

\* The ports left in the order of the splice.
UnsortedIndexes(d) == [q \in 1..Len(d) |-> q]

\* Sort by level delta (Array.prototype.sort is stable).
SortedIndexes(d) == [q \in 1..Len(d) |-> CHOOSE i \in 1..Len(d) : PlaceOf(d, i) = q]

\* The merge thunk of getRedexes.
reduceMerge(g, firstReplicator, secondReplicator, secondReplicatorPort, levelDeltaBetween) ==
    LET N == g.nodes
        f == N[firstReplicator]
        sec == N[secondReplicator]
        ports1 == Splice1(f.ports, secondReplicatorPort, SubSeq(sec.ports, 2, Len(sec.ports)))
        lds1 == Splice1(f.levelDeltas, secondReplicatorPort - 1,
                        [i \in 1..Len(sec.levelDeltas) |-> sec.levelDeltas[i] + levelDeltaBetween])
        \* zip aux ports with level deltas (a missing delta is undefined)
        naux == Len(ports1) - 1
        zipLd == [i \in 1..naux |-> IF i <= Len(lds1) THEN lds1[i] ELSE 0]
        perm == SortedIndexes(zipLd)
        auxPorts == [q \in 1..naux |-> ports1[perm[q] + 1]]
        levelDeltas == [q \in 1..naux |-> zipLd[perm[q]]]
        ports2 == <<ports1[1]>> \o auxPorts
        N1 == [N EXCEPT ![firstReplicator].isToBeMerged = FALSE,
                        ![firstReplicator].ports = ports2,
                        ![firstReplicator].levelDeltas = levelDeltas]
        \* Link external ports
        acc[i \in 0..Len(ports2)] ==
            IF i = 0 THEN N1
            ELSE LET prev == acc[i - 1]
                 IN  link(prev, P(prev, firstReplicator, i - 1), NP(firstReplicator, i - 1))
    IN  Ok(RemoveNodes(g.order, {secondReplicator}), acc[Len(ports2)])

FlipRep(t) == IF t = "rep-in" THEN "rep-out" ELSE "rep-in"

reduceCommuteFanRep(g, rep, level, rel) ==
    LET c == reduceCommute(g, rep)
        n1 == c.nodeClones[1]
        n2 == c.nodeClones[2]
        N1 == [c.nodes EXCEPT ![n1].label = formatRepLabel(level, "unknown")]
        N2 == [N1 EXCEPT ![n2].label =
                              formatRepLabel(IF rel THEN level + 1 ELSE level, "unknown"),
                         ![n2].type = FlipRep(@)]
    IN  IF c.err # "none" THEN Fail(g, c.err)
        ELSE IF Len(c.nodeClones) < 2 THEN Fail(c, "TypeError")
        ELSE Ok(c.order, N2)

reduceCommuteRepRep(g, a, b, top, bottom, topFlag, bottomFlag) ==
    LET c == reduceCommute(g, b)
        relabel(N, clones, base, lds, flag) ==
            LET acc[i \in 0..Len(clones)] ==
                    IF i = 0 THEN N
                    ELSE [acc[i - 1] EXCEPT ![clones[i]].label =
                             formatRepLabel(base + lds[i], flag)]
            IN  acc[Len(clones)]
    IN  IF c.err # "none" THEN Fail(g, c.err)
        ELSE IF top > bottom
             THEN Ok(c.order, relabel(c.nodes, c.otherClones, top,
                                      g.nodes[b].levelDeltas, topFlag))
             ELSE Ok(c.order, relabel(c.nodes, c.nodeClones, bottom,
                                      g.nodes[a].levelDeltas, bottomFlag))

\* node.ports.indexOf(p), 0-based; -1 when p is not in the array.
IndexOfPort(ps, p) ==
    IF \E i \in 1..Len(ps) : ps[i] = p
    THEN (CHOOSE i \in 1..Len(ps) : ps[i] = p /\ \A j \in 1..(i - 1) : ps[j] # p) - 1
    ELSE -1

\* The rep decay thunk of getRedexes (examples.ts): eliminates the auxiliary
\* port p of the replicator and its eraser (and the replicator if that was
\* its only auxiliary port).
reduceRepDecay(g, node, p) ==
    LET N == g.nodes
        ps == N[node].ports
        portIndex == IndexOfPort(ps, p)
        \* Update the port of the nodes connected to higher index aux ports
        inRange(M, np) == np.node \in DOMAIN M /\ np.port + 1 <= Len(M[np.node].ports)
        upd[i \in 0..Len(ps)] ==
            IF i = 0 THEN N
            ELSE LET np == ps[i]
                     pi == i - 1
                 IN  IF pi > portIndex /\ inRange(upd[i - 1], np)
                     THEN [upd[i - 1] EXCEPT ![np.node].ports[np.port + 1].port = pi - 1]
                     ELSE upd[i - 1]
        N1 == upd[Len(ps)]
        ps1 == IF portIndex >= 0 THEN DropAt(ps, portIndex + 1) ELSE ps
        lds == N[node].levelDeltas
        lds1 == IF portIndex >= 1 /\ portIndex <= Len(lds) THEN DropAt(lds, portIndex) ELSE lds
        N2 == [N1 EXCEPT ![node].ports = ps1, ![node].levelDeltas = lds1]
    IN  IF \E i \in 1..Len(ps) : (i - 1) > portIndex /\ ~inRange(N, ps[i])
        THEN Fail(g, "TypeError")
        ELSE IF Len(ps1) = 1
        THEN Ok(RemoveNodes(g.order, {node}), link(N2, ps1[1], p))
        ELSE Ok(RemoveNodes(g.order, {p.node}), N2)

\* What reduce() of a redex does once its two nodes are found in the graph.
RunThunk(g, th, rel) ==
    IF th.kind = "eraseOther" THEN reduceErase(g, P(g.nodes, th.node, 0).node)
    ELSE IF th.kind = "erase" THEN reduceErase(g, th.node)
    ELSE IF th.kind = "annihilate" THEN reduceAnnihilate(g, th.node)
    ELSE IF th.kind = "commuteFanRep" THEN reduceCommuteFanRep(g, th.node, th.i1, rel)
    ELSE IF th.kind = "commuteRepRep"
         THEN reduceCommuteRepRep(g, th.node, th.other, th.i1, th.i2, th.s1, th.s2)
    ELSE IF th.kind = "merge" THEN reduceMerge(g, th.node, th.other, th.i1, th.i2)
    ELSE IF th.kind = "auxFanOther" THEN reduceAuxFan(g, P(g.nodes, th.node, 0).node, rel)
    ELSE IF th.kind = "auxFan" THEN reduceAuxFan(g, th.node, rel)
    ELSE IF th.kind = "repDecay" THEN reduceRepDecay(g, th.node, NP(th.other, th.i1))
    ELSE IF th.kind = "mergeUndefined" THEN Fail(g, "undefined level delta")
    ELSE Ok(g.order, g.nodes)

Member(g, n) == \E i \in 1..Len(g.order) : g.order[i] = n

applyThunkNoGuard(g, redex, rel) == RunThunk(g, redex.reduce, rel)

\* redex.reduce(): ignored if any of the two nodes has been removed.
applyThunk(g, redex, rel) ==
    IF ~Member(g, redex.a) \/ ~Member(g, redex.b) THEN Ok(g.order, g.nodes)
    ELSE RunThunk(g, redex.reduce, rel)

\* The thunks of a list applied one after the other (forEach); an Error
\* thrown by one of them ends the loop.
RECURSIVE applyAll(_, _, _)
applyAll(g, rs, rel) ==
    IF rs = <<>> THEN Ok(g.order, g.nodes)
    ELSE Bind(applyThunk(g, Head(rs), rel), LAMBDA r :
             IF r.err # "none" THEN r
             ELSE applyAll([order |-> r.order, nodes |-> r.nodes], Tail(rs), rel))

(***************************************************************************)
(* render: the scan, the navigation closures it installs, and the final    *)
(* cleanup step.                                                           *)
(*                                                                         *)
(* A closure is [kind, obj]:                                               *)
(*   "undefined"                                                           *)
(*   "history"  the forward closure of applyReduction                      *)
(*   "step"     () => applyReduction(state, () => optimalRedexes[0].reduce()) *)
(*   "wave"     the forwardParallel closure over optimalRedexes            *)
(*   "final"    finalStep                                                  *)
(* obj is the graph object the closure works on: the thunks of "step" and  *)
(* "wave" are bound to the graph that was scanned; finalStep reads         *)
(* currState.stack[currState.idx] of the state object it captured, which   *)
(* is the current state object (obj = 0) until a navigation call replaces  *)
(* the state object, and keeps the stack and idx it had then.              *)
(***************************************************************************)
Undefined == [kind |-> "undefined", obj |-> 0]
Closure(kind, obj) == [kind |-> kind, obj |-> obj]

\* The traversal of the final cleanup: marks the nodes to keep.
RECURSIVE keepTraverse(_, _, _)
RECURSIVE keepTraverseAux(_, _, _, _)
keepTraverse(N, nodePort, kept) ==
    LET node == nodePort.node
        port == nodePort.port
        t == N[node].type
        k1 == kept \cup {node}
    IN  IF node \in kept THEN kept
        ELSE IF t = "abs" /\ port = 0 THEN
            LET k2 == IF N[P(N, node, 2).node].type = "era"
                      THEN keepTraverse(N, P(N, node, 2), k1) ELSE k1
            IN  keepTraverse(N, P(N, node, 1), k2)
        ELSE IF t = "app" /\ port = 1 THEN
            keepTraverse(N, P(N, node, 2), keepTraverse(N, P(N, node, 0), k1))
        ELSE IF IsRep(t) /\ port # 0 THEN keepTraverse(N, P(N, node, 0), k1)
        ELSE IF IsRep(t) /\ port = 0 THEN keepTraverseAux(N, node, 1, k1)
        ELSE k1

keepTraverseAux(N, node, i, kept) ==
    IF i >= Len(N[node].ports) THEN kept
    ELSE keepTraverseAux(N, node, i + 1, keepTraverse(N, P(N, node, i), kept))

SetKeep(N, S) == [n \in DOMAIN N |-> IF n \in S THEN [N[n] EXCEPT !.keep = TRUE] ELSE N[n]]

\* "Reset flags" of render: only the nodes of the graph array are visited.
ResetFlags(g) ==
    [n \in DOMAIN g.nodes |->
        IF Member(g, n) THEN [g.nodes[n] EXCEPT !.keep = FALSE] ELSE g.nodes[n]]

\* A filter that finds no optimal redex.
OptimalNone(rs) == <<>>

Optimal(rs) == SelectSeq(rs, LAMBDA r : r.optimal)

\* finalStep, first loop: every port of a kept node that leads to a node
\* that is not kept is linked to a new eraser (not added to the graph).
EraseNonKeptNothing(g) == g

EraseNonKept(g) ==
    LET n == Len(g.order)
        onPort(N, node, i) ==
            IF ~N[P(N, node, i).node].keep
            THEN LET eraser == Fresh(node, FinalTag, i)
                 IN  link((eraser :> NewNode("era", TextLabel("era"), <<>>)) @@ N,
                          NP(node, i), NP(eraser, 0))
            ELSE N
        onNode(N, node) ==
            IF N[node].keep
            THEN LET acc[i \in 0..Len(N[node].ports)] ==
                         IF i = 0 THEN N ELSE onPort(acc[i - 1], node, i - 1)
                 IN  acc[Len(N[node].ports)]
            ELSE N
        all[i \in 0..n] == IF i = 0 THEN g.nodes ELSE onNode(all[i - 1], g.order[i])
    IN  [order |-> SelectSeq(g.order, LAMBDA x : g.nodes[x].keep), nodes |-> all[n]]

\* The second loop of finalStep without the relinking of the ports that
\* stay (lines 637-643 left out).
StripEraserPortsNoRelink(g) ==
    LET n == Len(g.order)
        onNode(N, node) ==
            IF ~IsRep(N[node].type) THEN N
            ELSE LET ps == N[node].ports
                     lds == N[node].levelDeltas
                     erase(i) == i > 1 /\ N[ps[i].node].type = "era"
                     keptIdx == SelectSeq([i \in 1..Len(ps) |-> i], LAMBDA i : ~erase(i))
                     keptLd == SelectSeq([i \in 1..Len(lds) |-> i], LAMBDA i : ~erase(i + 1))
                 IN  [N EXCEPT ![node].ports = [q \in 1..Len(keptIdx) |-> ps[keptIdx[q]]],
                               ![node].levelDeltas = [q \in 1..Len(keptLd) |-> lds[keptLd[q]]]]
        all[i \in 0..n] == IF i = 0 THEN g.nodes ELSE onNode(all[i - 1], g.order[i])
    IN  [order |-> g.order, nodes |-> all[n]]

\* The second loop of finalStep with the level deltas left as they were.
StripEraserPortsKeepDeltas(g) ==
    LET n == Len(g.order)
        onNode(N, node) ==
            IF ~IsRep(N[node].type) THEN N
            ELSE LET ps == N[node].ports
                     lds == N[node].levelDeltas
                     erase(i) == i > 1 /\ N[ps[i].node].type = "era"
                     keptIdx == SelectSeq([i \in 1..Len(ps) |-> i], LAMBDA i : ~erase(i))
                     keptLd == SelectSeq([i \in 1..Len(lds) |-> i], LAMBDA i : ~erase(i + 1))
                     ps1 == [q \in 1..Len(keptIdx) |-> ps[keptIdx[q]]]
                     lds1 == lds
                     N1 == [N EXCEPT ![node].ports = ps1, ![node].levelDeltas = lds1]
                     acc[i \in 0..Len(ps1)] ==
                         IF i = 0 THEN N1
                         ELSE LET prev == acc[i - 1]
                              IN  link(prev, P(prev, node, i - 1), NP(node, i - 1))
                 IN  acc[Len(ps1)]
        all[i \in 0..n] == IF i = 0 THEN g.nodes ELSE onNode(all[i - 1], g.order[i])
    IN  [order |-> g.order, nodes |-> all[n]]

\* finalStep, second loop: the auxiliary ports of a replicator that lead to
\* an eraser are removed with their level deltas, and the rest is relinked.
StripEraserPorts(g) ==
    LET n == Len(g.order)
        onNode(N, node) ==
            IF ~IsRep(N[node].type) THEN N
            ELSE LET ps == N[node].ports
                     lds == N[node].levelDeltas
                     erase(i) == i > 1 /\ N[ps[i].node].type = "era"
                     keptIdx == SelectSeq([i \in 1..Len(ps) |-> i], LAMBDA i : ~erase(i))
                     keptLd == SelectSeq([i \in 1..Len(lds) |-> i], LAMBDA i : ~erase(i + 1))
                     ps1 == [q \in 1..Len(keptIdx) |-> ps[keptIdx[q]]]
                     lds1 == [q \in 1..Len(keptLd) |-> lds[keptLd[q]]]
                     N1 == [N EXCEPT ![node].ports = ps1, ![node].levelDeltas = lds1]
                     acc[i \in 0..Len(ps1)] ==
                         IF i = 0 THEN N1
                         ELSE LET prev == acc[i - 1]
                              IN  link(prev, P(prev, node, i - 1), NP(node, i - 1))
                 IN  acc[Len(ps1)]
        all[i \in 0..n] == IF i = 0 THEN g.nodes ELSE onNode(all[i - 1], g.order[i])
    IN  [order |-> g.order, nodes |-> all[n]]

\* A finalStep without its second loop: the auxiliary ports that lead to
\* erasers stay.
finalStepNoStrip(g) ==
    Bind(EraseNonKept(g), LAMBDA g1 :
    Bind(SpliceReps(g1.order, g1.nodes, FALSE), LAMBDA g3 :
        Ok(g3.order, g3.nodes)))

\* The body of finalStep on the graph it finds at stack[idx].
finalStep(g) ==
    Bind(EraseNonKept(g), LAMBDA g1 :
    Bind(StripEraserPorts(g1), LAMBDA g2 :
    Bind(SpliceReps(g2.order, g2.nodes, FALSE), LAMBDA g3 :
        Ok(g3.order, g3.nodes))))

\* render of methods/deltanets.ts on graph object `obj` with content g:
\* returns the graph (flags updated), the redex list, and the closures and
\* data it leaves in the state.
render(g, obj, sys, fwd, fpar, dat) ==
    Bind(getRedexes([order |-> g.order, nodes |-> ResetFlags(g)], sys), LAMBDA sc :
    LET g1 == [order |-> g.order, nodes |-> sc.nodes]
        optimalRedexes == Optimal(sc.rs)
        rootNode == g.order[rootOf(g)]
        kept == keepTraverse(sc.nodes, P(sc.nodes, rootNode, 0), {rootNode})
        g2 == [order |-> g.order, nodes |-> SetKeep(sc.nodes, kept)]
        nodesToErase == {i \in 1..Len(g.order) : g.order[i] \notin kept}
    IN  IF optimalRedexes # <<>> THEN
            [g |-> g1, rs |-> sc.rs,
             forward |-> IF fwd.kind = "undefined" THEN Closure("step", obj) ELSE fwd,
             forwardParallel |-> Closure("wave", obj), data |-> dat]
        ELSE IF ~dat.appliedFinalStep THEN
            IF nodesToErase # {} THEN
                [g |-> g2, rs |-> sc.rs,
                 forward |-> Closure("final", 0), forwardParallel |-> Closure("final", 0),
                 data |-> [dat EXCEPT !.isFinalStep = TRUE]]
            ELSE
                [g |-> g2, rs |-> sc.rs, forward |-> fwd, forwardParallel |-> fpar,
                 data |-> [dat EXCEPT !.appliedFinalStep = TRUE]]
        ELSE
            [g |-> g1, rs |-> sc.rs, forward |-> fwd, forwardParallel |-> fpar, data |-> dat])

\* render of examples.ts: the scan and the two closures; no final cleanup.
renderParallel(g, obj, fwd, fpar, dat) ==
    LET sc == getRedexesParallel(g)
        g1 == [order |-> g.order, nodes |-> sc.nodes]
    IN  IF Optimal(sc.rs) # <<>> THEN
            [g |-> g1, rs |-> sc.rs,
             forward |-> IF fwd.kind = "undefined" THEN Closure("step", obj) ELSE fwd,
             forwardParallel |-> Closure("wave", obj), data |-> dat]
        ELSE [g |-> g1, rs |-> sc.rs, forward |-> fwd, forwardParallel |-> fpar, data |-> dat]

(***************************************************************************)
(* The session: MethodState and applyReduction.                            *)
(***************************************************************************)
\* The nodes a graph array reaches through ports.
RECURSIVE ReachFrom(_, _)
ReachFrom(N, S) ==
    LET step == S \cup {x \in UNION {{N[n].ports[i].node : i \in 1..Len(N[n].ports)} : n \in S} :
                          x # Null /\ x \in DOMAIN N}
    IN  IF step = S THEN S ELSE ReachFrom(N, step)

\* Node objects no longer reachable from the graph array are garbage.
Prune(g) ==
    LET R == ReachFrom(g.nodes, SeqToSet(g.order))
    IN  [order |-> g.order, nodes |-> [n \in R |-> g.nodes[n]]]

\* structuredClone(currState.stack[currState.idx]): a new graph object c
\* with a copy of everything the array reaches.
structuredClone(objs, cur, c) == (c :> Prune(objs[cur])) @@ objs

\* What deep equality of two graphs compares.
Shape(g) ==
    LET R == ReachFrom(g.nodes, SeqToSet(g.order))
    IN  [order |-> g.order,
         nodes |-> [n \in R |-> [type |-> g.nodes[n].type, label |-> g.nodes[n].label,
                                  ports |-> g.nodes[n].ports,
                                  levelDeltas |-> g.nodes[n].levelDeltas]]]

Cur == stack[idx + 1]
CurGraph == graphs[Cur]

FreshObj(objs) == CHOOSE c \in 1..(Cardinality(DOMAIN objs) + 1) : c \notin DOMAIN objs

\* Graph objects that the stack no longer holds are garbage (no closure
\* outlives the operation that drops its graph from the stack).  Object
\* identities carry no information, so the objects the stack holds are
\* renamed to their positions in it.
PositionOf(stk, o) == IF o = 0 THEN 0 ELSE CHOOSE k \in 1..Len(stk) : stk[k] = o

Collect(objs, stk) == [k \in 1..Len(stk) |-> Prune(objs[stk[k]])]

Rebind(c, stk) == [c EXCEPT !.obj = PositionOf(stk, @)]

\* A finalStep closure that was installed on the current state object keeps,
\* once a navigation call has replaced that object, the graph then current.
Freeze(c, obj) == IF c.kind = "final" /\ c.obj = 0 THEN [c EXCEPT !.obj = obj] ELSE c

\* The render that follows every update of state.value.
Rendered(objs, stk, i, fwd, fpar, dat) ==
    \E cur \in {stk[i + 1]} :
    \E r \in {IF variant = "parallel" THEN renderParallel(objs[cur], cur, fwd, fpar, dat)
              ELSE render(objs[cur], cur, systemType, fwd, fpar, dat)} :
        /\ graphs' = Collect([objs EXCEPT ![cur] = r.g], stk)
        /\ stack' = [k \in 1..Len(stk) |-> k]
        /\ redexes' = r.rs
        /\ forward' = Rebind(r.forward, stk)
        /\ forwardParallel' = Rebind(r.forwardParallel, stk)
        /\ data' = r.data

Config == UNCHANGED <<variant, ast, systemType, relativeLevel>>

Steps == {"step", "wave", "click", "final", "finalParallel"}

Note(op) ==
    /\ lastOp' = op
    /\ snap' = IF op \in Steps THEN <<Shape(CurGraph), idx < Len(stack) - 1>>
               ELSE IF op = "back" /\ lastOp \in Steps THEN snap
               ELSE <<>>

\* splice(idx + 1, 0, stateClone): the clone lands above the graph that is
\* reduced in place.
SplicedStackCloneOnTop(stk, i, c) == SubSeq(stk, 1, i) \o <<stk[i + 1], c>>

\* The same without stack.slice(0, idx + 1).
SplicedStackNoTruncate(stk, i, c) == SubSeq(stk, 1, i) \o <<c>> \o SubSeq(stk, i + 1, Len(stk))

\* The stack after `stack.slice(0, idx + 1)` and `splice(idx, 0, stateClone)`.
SplicedStack(stk, i, c) == SubSeq(stk, 1, i) \o <<c, stk[i + 1]>>

\* applyReduction(state, reduce), where reduce works on graph object
\* `target`: kind "thunks" applies the thunks rs, kind "final" is the body
\* of finalStep.
applyReduction(op, kind, target, rs) ==
    /\ thrown = "none"
    /\ idx + 2 <= MaxStack
    /\ Len(CurGraph.order) <= MaxNodes
    /\ \E c \in {FreshObj(graphs)} :
       \E objs1 \in {structuredClone(graphs, Cur, c)} :
       \E stk1 \in {SplicedStack(stack, idx, c)} :
       \E res \in {IF kind = "final" THEN finalStep(objs1[target])
                   ELSE applyAll(objs1[target], rs, relativeLevel)} :
       \E objs2 \in {[objs1 EXCEPT ![target] = [order |-> res.order, nodes |-> res.nodes]]} :
       \E dat1 \in {IF kind = "final" THEN [data EXCEPT !.appliedFinalStep = TRUE] ELSE data} :
            /\ idx' = idx + 1
            /\ thrown' = res.err
            /\ last' = last
            /\ Note(op)
            /\ Config
            /\ IF res.err = "none"
               THEN /\ back' = TRUE
                    /\ reset' = TRUE
                    /\ Rendered(objs2, stk1, idx + 1, Undefined, Undefined, dat1)
               ELSE /\ UNCHANGED <<back, reset, redexes>>
                    /\ graphs' = Collect(objs2, stk1)
                    /\ stack' = [k \in 1..Len(stk1) |-> k]
                    /\ forward' = Undefined
                    /\ forwardParallel' = Undefined
                    /\ data' = dat1

\* The redexes a "step"/"wave" closure captured: those of the scan of the
\* graph object it is bound to.
CapturedOptimal(obj) ==
    IF obj = Cur THEN Optimal(redexes)
    ELSE IF variant = "parallel" THEN Optimal(getRedexesParallel(graphs[obj]).rs)
    ELSE Optimal(getRedexes([order |-> graphs[obj].order, nodes |-> ResetFlags(graphs[obj])],
                            systemType).rs)

FinalTarget(c) == IF c.obj = 0 THEN Cur ELSE c.obj

\* The forward closure that applyReduction creates (redo).
HistoryForward ==
    LET atTip == Len(stack) - 1 = idx + 1
    IN  /\ thrown = "none"
        /\ idx' = idx + 1
        /\ last' = (IF atTip THEN FALSE ELSE last)
        /\ back' = TRUE
        /\ reset' = TRUE
        /\ thrown' = "none"
        /\ Note("history")
        /\ Config
        /\ Rendered(graphs, stack, idx + 1,
                    IF atTip THEN Undefined ELSE forward,
                    IF atTip THEN Undefined ELSE Freeze(forwardParallel, stack[idx + 2]),
                    data)

\* state.forward?.()  (right arrow, toolbar button)
Forward ==
    \/ /\ forward.kind = "history"
       /\ HistoryForward
    \/ /\ forward.kind = "step"
       /\ applyReduction("step", "thunks", forward.obj, SubSeq(CapturedOptimal(forward.obj), 1, 1))
    \/ /\ forward.kind = "final"
       /\ applyReduction("final", "final", FinalTarget(forward), <<>>)

\* state.forwardParallel?.()  (control + right arrow)
ForwardParallel ==
    \/ /\ forwardParallel.kind = "wave"
       /\ applyReduction("wave", "thunks", forwardParallel.obj,
                         CapturedOptimal(forwardParallel.obj))
    \/ /\ forwardParallel.kind = "final"
       /\ applyReduction("finalParallel", "final", FinalTarget(forwardParallel), <<>>)

\* A click on the wire of a redex: applyReduction(state, redex.reduce).
Click ==
    /\ Len(CurGraph.order) <= MaxClickNodes
    /\ \E r \in 1..Len(redexes) :
          applyReduction("click", "thunks", Cur, <<redexes[r]>>)

\* A back without `if (currState.idx === 0)`: back and reset stay defined.
BackStaysAvailable ==
    /\ thrown = "none"
    /\ back
    /\ idx' = idx - 1
    /\ back' = TRUE
    /\ reset' = TRUE
    /\ last' = TRUE
    /\ thrown' = "none"
    /\ Note("back")
    /\ Config
    /\ Rendered(graphs, stack, idx - 1, Closure("history", 0),
                Freeze(forwardParallel, stack[idx]),
                [appliedFinalStep |-> FALSE, isFinalStep |-> FALSE])

\* state.back?.()
Back ==
    /\ thrown = "none"
    /\ back
    /\ idx' = idx - 1
    /\ back' = (idx - 1 # 0)
    /\ reset' = (idx - 1 # 0)
    /\ last' = TRUE
    /\ thrown' = "none"
    /\ Note("back")
    /\ Config
    /\ Rendered(graphs, stack, idx - 1, Closure("history", 0),
                Freeze(forwardParallel, stack[idx]),
                [appliedFinalStep |-> FALSE, isFinalStep |-> FALSE])

\* A reset that also drops the snapshots above the first.
ResetDropsHistory ==
    /\ thrown = "none"
    /\ reset
    /\ idx' = 0
    /\ back' = FALSE
    /\ reset' = FALSE
    /\ last' = TRUE
    /\ thrown' = "none"
    /\ Note("reset")
    /\ Config
    /\ Rendered(graphs, SubSeq(stack, 1, 1), 0, Closure("history", 0),
                Freeze(forwardParallel, stack[1]),
                [appliedFinalStep |-> FALSE, isFinalStep |-> FALSE])

\* state.reset?.()
Reset ==
    /\ thrown = "none"
    /\ reset
    /\ idx' = 0
    /\ back' = FALSE
    /\ reset' = FALSE
    /\ last' = TRUE
    /\ thrown' = "none"
    /\ Note("reset")
    /\ Config
    /\ Rendered(graphs, stack, 0, Closure("history", 0),
                Freeze(forwardParallel, stack[1]),
                [appliedFinalStep |-> FALSE, isFinalStep |-> FALSE])

\* state.last?.()
Last ==
    /\ thrown = "none"
    /\ last
    /\ idx' = Len(stack) - 1
    /\ back' = TRUE
    /\ reset' = TRUE
    /\ last' = FALSE
    /\ thrown' = "none"
    /\ Note("last")
    /\ Config
    /\ Rendered(graphs, stack, Len(stack) - 1, Undefined, Undefined, data)

(***************************************************************************)
(* Specification of the session of methods/deltanets.ts.                   *)
(***************************************************************************)
Terms == {TermFanStrip, TermFreeTwice, TermEraseId, TermSort, TermSplice, TermIdId, TermErasure, TermDecay, TermDrop, TermShare, TermLin, TermNest,
          TermStrip, TermOmega, TermY}

Init ==
    /\ variant = "deltanets"
    /\ ast \in Terms
    /\ systemType \in {sys \in {"linear", "affine", "relevant", "full"} :
                          Permits(sys, getExpressionType(ast))}
    /\ relativeLevel \in BOOLEAN
    /\ stack = <<1>>
    /\ idx = 0
    /\ back = FALSE
    /\ reset = FALSE
    /\ last = FALSE
    /\ thrown = "none"
    /\ lastOp = "init"
    /\ \E g \in {init(ast, systemType, relativeLevel)} :
       \E r \in {render(g, 1, systemType, Undefined, Undefined,
                         [appliedFinalStep |-> FALSE, isFinalStep |-> FALSE])} :
           /\ graphs = <<Prune(r.g)>>
           /\ redexes = r.rs
           /\ forward = r.forward
           /\ forwardParallel = r.forwardParallel
           /\ data = r.data
           /\ snap = <<>>

Next == Forward \/ ForwardParallel \/ Click \/ Back \/ Reset \/ Last

Spec == Init /\ [][Next]_vars

(***************************************************************************)
(* Specification of the session of the variant of examples.ts (init with   *)
(* singleAgent = false).  Its state has no data and its render installs no *)
(* final cleanup.                                                          *)
(***************************************************************************)
TermsPar == {TermIdId, TermShare, TermDecay, TermNest, TermStrip, TermErasure}

InitPar ==
    /\ variant = "parallel"
    /\ ast \in TermsPar
    /\ systemType \in {sys \in {"linear", "affine", "relevant", "full"} :
                          Permits(sys, getExpressionType(ast))}
    /\ relativeLevel \in BOOLEAN
    /\ stack = <<1>>
    /\ idx = 0
    /\ back = FALSE
    /\ reset = FALSE
    /\ last = FALSE
    /\ thrown = "none"
    /\ lastOp = "init"
    /\ \E g \in {init(ast, systemType, relativeLevel)} :
       \E r \in {renderParallel(g, 1, Undefined, Undefined,
                                 [appliedFinalStep |-> FALSE, isFinalStep |-> FALSE])} :
           /\ graphs = <<Prune(r.g)>>
           /\ redexes = r.rs
           /\ forward = r.forward
           /\ forwardParallel = r.forwardParallel
           /\ data = r.data
           /\ snap = <<>>

\* state.forward?.()
StepPar ==
    \/ /\ forward.kind = "history"
       /\ HistoryForward
    \/ /\ forward.kind = "step"
       /\ applyReduction("step", "thunks", forward.obj, SubSeq(CapturedOptimal(forward.obj), 1, 1))

\* state.forwardParallel?.()
WavePar ==
    /\ forwardParallel.kind = "wave"
    /\ applyReduction("wave", "thunks", forwardParallel.obj,
                      CapturedOptimal(forwardParallel.obj))

NextPar == StepPar \/ WavePar \/ Click \/ Back \/ Reset \/ Last

SpecPar == InitPar /\ [][NextPar]_vars


(***************************************************************************)
(* Specification of the session of methods/deltanets.ts on terms the       *)
(* reduction of which raises an Error under the linear discipline.         *)
(***************************************************************************)
\* (\x.x) (\y.y (u u)): linear by getExpressionType, yet the replicator of
\* the free variable u keeps that of x in the graph, where it meets \y.
TermThrow == App(Abs("x", Var("x")), Abs("y", App(Var("y"), App(Var("u"), Var("u")))))

TermsThrow == {TermThrow, TermDrop}

InitThrow ==
    /\ variant = "deltanets"
    /\ ast \in TermsThrow
    /\ systemType \in {sys \in {"linear", "affine", "relevant", "full"} :
                          Permits(sys, getExpressionType(ast))}
    /\ relativeLevel \in BOOLEAN
    /\ stack = <<1>>
    /\ idx = 0
    /\ back = FALSE
    /\ reset = FALSE
    /\ last = FALSE
    /\ thrown = "none"
    /\ lastOp = "init"
    /\ \E g \in {init(ast, systemType, relativeLevel)} :
       \E r \in {render(g, 1, systemType, Undefined, Undefined,
                         [appliedFinalStep |-> FALSE, isFinalStep |-> FALSE])} :
           /\ graphs = <<Prune(r.g)>>
           /\ redexes = r.rs
           /\ forward = r.forward
           /\ forwardParallel = r.forwardParallel
           /\ data = r.data
           /\ snap = <<>>

SpecThrow == InitThrow /\ [][Next]_vars

(***************************************************************************)
(* Specification of the session of methods/deltanets.ts on terms that use  *)
(* a variable name more than once: bound twice, or bound and free.         *)
(***************************************************************************)
\* (\x.x) x: the second x is free
TermReuse == App(Abs("x", Var("x")), Var("x"))
\* (\x.\x.x) v: the inner binder shadows the outer one, which is unused
TermShadow == App(Abs("x", Abs("x", Var("x"))), Var("v"))
\* \x.(\x.x) x: each binder is used once
TermShadowUsed == Abs("x", App(Abs("x", Var("x")), Var("x")))

TermsScope == {TermReuse, TermShadow, TermShadowUsed}

InitScope ==
    /\ variant = "deltanets"
    /\ ast \in TermsScope
    /\ systemType \in {sys \in {"linear", "affine", "relevant", "full"} :
                          Permits(sys, getExpressionType(ast))}
    /\ relativeLevel \in BOOLEAN
    /\ stack = <<1>>
    /\ idx = 0
    /\ back = FALSE
    /\ reset = FALSE
    /\ last = FALSE
    /\ thrown = "none"
    /\ lastOp = "init"
    /\ \E g \in {init(ast, systemType, relativeLevel)} :
       \E r \in {render(g, 1, systemType, Undefined, Undefined,
                         [appliedFinalStep |-> FALSE, isFinalStep |-> FALSE])} :
           /\ graphs = <<Prune(r.g)>>
           /\ redexes = r.rs
           /\ forward = r.forward
           /\ forwardParallel = r.forwardParallel
           /\ data = r.data
           /\ snap = <<>>

SpecScope == InitScope /\ [][Next]_vars

(***************************************************************************)
(* Specification of a session driven by the arrow keys only: forward       *)
(* (reduce or redo) and back.                                              *)
(***************************************************************************)
NextFwd == Forward \/ Back

SpecFwd == Init /\ [][NextFwd]_vars

(***************************************************************************)
(* Properties.                                                             *)
(***************************************************************************)
\* The graphs of the session: every entry of the history stack.
StackGraphs == {graphs[stack[k]] : k \in 1..Len(stack)}

Reciprocity(g) ==
    \A n \in SeqToSet(g.order) : \A i \in 1..Len(g.nodes[n].ports) :
        LET q == g.nodes[n].ports[i]
        IN  /\ q.node \in DOMAIN g.nodes
            /\ q.port + 1 <= Len(g.nodes[q.node].ports)
            /\ reciprocal(g.nodes, q) = NP(n, i - 1)

Membership(g) ==
    \A n \in SeqToSet(g.order) : \A i \in 1..Len(g.nodes[n].ports) :
        Member(g, g.nodes[n].ports[i].node)

\* C1: in every graph reached from a compiled term by steps, waves, clicks
\* and the final cleanup, every port (n, i) of a live node n that holds
\* (m, j) is held back by m.ports[j] = (n, i).
C1_Reciprocity == \A g \in StackGraphs : Reciprocity(g)

\* A graph produced by the final cleanup after a rule was applied, in which
\* a replicator still has auxiliary ports (so links were rewritten by the
\* rules, by the port stripping and by the splices).
C1_Witness ==
    /\ lastOp \in {"final", "finalParallel"}
    /\ idx >= 2
    /\ \E n \in SeqToSet(CurGraph.order) :
          IsRep(CurGraph.nodes[n].type) /\ Len(CurGraph.nodes[n].ports) >= 2

\* C2: in every reachable graph every port of every live node refers to a
\* node that is a member of the graph.
C2_PortsReferToMembers == \A g \in StackGraphs : Membership(g)

\* C3: a back invoked immediately after a step makes the current graph
\* deep-equal (node kinds, labels, level deltas, port topology) to the graph
\* that was current before that step.
C3_BackRestoresGraph ==
    (lastOp = "back" /\ snap # <<>>) => Shape(CurGraph) = snap[1]

\* A back right after a step that changed the graph.
C3_Witness ==
    /\ lastOp = "back"
    /\ snap # <<>>
    /\ Len(stack) >= idx + 2
    /\ Shape(graphs[stack[idx + 2]]) # snap[1]

\* C4: a step taken at a position i below the tip leaves a stack of exactly
\* i + 2 entries with the cursor at i + 1, and the entries 0..i are
\* deep-equal to what they were before the step.
C4_StepBelowTipTruncates ==
    [][(lastOp' \in Steps /\ idx < Len(stack) - 1)
          => /\ Len(stack') = idx + 2
             /\ idx' = idx + 1
             /\ \A k \in 1..(idx + 1) :
                   Shape(graphs'[stack'[k]]) = Shape(graphs[stack[k]])]_vars

\* A step has just been taken from a position below the tip.
C4_Witness == lastOp \in Steps /\ snap # <<>> /\ snap[2] /\ thrown = "none"

\* The orders in which the thunks of a list can be applied.
Orders(n) == {f \in [1..n -> 1..n] : \A i, j \in 1..n : i # j => f[i] # f[j]}

\* The outcome of a wave that applies the thunks rs in the order f.
WaveResult(g, rs, f) ==
    LET r == applyAll(g, [i \in 1..Len(rs) |-> rs[f[i]]], relativeLevel)
    IN  [graph |-> Shape([order |-> r.order, nodes |-> r.nodes]), err |-> r.err]

\* C5: a wave produces the same graph whatever the order in which the
\* thunks of the currently-optimal redexes are applied.
C5_WaveOrderIndependent ==
    forwardParallel.kind = "wave" =>
        \A f \in Orders(Len(Optimal(redexes))) :
            WaveResult(CurGraph, Optimal(redexes), f)
              = WaveResult(CurGraph, Optimal(redexes), [i \in 1..Len(Optimal(redexes)) |-> i])

\* A redex of the list is stale in g: one of its two nodes has left g.
Stale(g, r) == ~Member(g, r.a) \/ ~Member(g, r.b)

AsGraph(r) == [order |-> r.order, nodes |-> r.nodes]

\* C6: the thunk of a redex one of whose nodes is no longer a member of the
\* graph leaves the graph unchanged: whenever applying one thunk of the
\* scan makes another redex of the same scan stale, invoking that redex
\* adds and removes no node and relinks no port.
C6_StaleThunkIsNoOp ==
    \A i, j \in 1..Len(redexes) :
        LET g1 == AsGraph(applyThunk(CurGraph, redexes[i], relativeLevel))
        IN  Stale(g1, redexes[j]) =>
                applyThunk(g1, redexes[j], relativeLevel) = Ok(g1.order, g1.nodes)

\* Two redexes of one scan of which the first, once applied, removes a node
\* of the second while the other node of the second stays in the graph.
C6_Witness ==
    \E i, j \in 1..Len(redexes) :
        LET g1 == AsGraph(applyThunk(CurGraph, redexes[i], relativeLevel))
        IN  /\ i # j
            /\ Stale(g1, redexes[j])
            /\ Member(g1, redexes[j].a) \/ Member(g1, redexes[j].b)

IndexIn(order, n) == CHOOSE k \in 1..Len(order) : order[k] = n

NoDuplicatePair(rs) ==
    \A i, j \in 1..Len(rs) : i # j => ~SamePair(rs[i], rs[j].a, rs[j].b)

\* C8: the redex list of a scan holds no two entries for the same unordered
\* pair of nodes; a pair that is constructed again, with either optimality
\* value and another thunk, leaves the list as it is, and the entry of a
\* pair that the scan meets from both of its nodes is the one created at
\* the first of the two (a is the node that comes first in the array, and
\* the thunk is the one created from that node).
C8_RedexPairsAreUnique ==
    /\ NoDuplicatePair(redexes)
    /\ \A i \in 1..Len(redexes) :
          LET r == redexes[i]
          IN  /\ \A opt \in BOOLEAN :
                    createRedex(redexes, r.b, r.a, opt,
                                Thunk("erase", r.b, Null, 0, 0, "", "")) = redexes
              /\ (/\ systemType # "linear"
                  /\ P(CurGraph.nodes, r.a, 0) = NP(r.b, 0)
                  /\ \/ "era" \in {CurGraph.nodes[r.a].type, CurGraph.nodes[r.b].type}
                     \/ IsRep(CurGraph.nodes[r.a].type) /\ IsRep(CurGraph.nodes[r.b].type)) =>
                    /\ IndexIn(CurGraph.order, r.a) < IndexIn(CurGraph.order, r.b)
                    /\ r.reduce.kind = "eraseOther" <=> CurGraph.nodes[r.a].type = "era"

\* A scan that met a pair from both of its nodes (an eraser facing a node
\* that is neither a variable nor the root, or two replicators facing each
\* other), in a graph reached by a reduction.
C8_Witness ==
    /\ idx >= 1
    /\ systemType # "linear"
    /\ \E i \in 1..Len(redexes) :
          /\ redexes[i].reduce.kind \in {"eraseOther", "erase", "commuteRepRep"}
          /\ P(CurGraph.nodes, redexes[i].a, 0) = NP(redexes[i].b, 0)
          /\ P(CurGraph.nodes, redexes[i].b, 0) = NP(redexes[i].a, 0)

\* The net of the identity: the root and one abstraction whose body port is
\* wired to its own variable port.
OnlyRootAndIdentity(g) ==
    /\ Len(g.order) = 2
    /\ \E r, a \in SeqToSet(g.order) :
          /\ g.nodes[r].type = "root"
          /\ g.nodes[a].type = "abs"
          /\ g.nodes[r].ports = <<NP(a, 0)>>
          /\ g.nodes[a].ports = <<NP(r, 0), NP(a, 2), NP(a, 1)>>

\* The same net with a replicator of one auxiliary port on the wire from
\* the root to the abstraction and another on the wire from the variable
\* port to the body port.
RootIdentityAndTwoReps(g) ==
    /\ Len(g.order) = 4
    /\ \E r, a, p, q \in SeqToSet(g.order) :
          /\ g.nodes[r].type = "root"
          /\ g.nodes[a].type = "abs"
          /\ g.nodes[p].type = "rep-in"
          /\ g.nodes[q].type = "rep-in"
          /\ p # q
          /\ g.nodes[r].ports = <<NP(p, 1)>>
          /\ g.nodes[p].ports = <<NP(a, 0), NP(r, 0)>>
          /\ g.nodes[a].ports = <<NP(p, 0), NP(q, 1), NP(q, 0)>>
          /\ g.nodes[q].ports = <<NP(a, 2), NP(a, 1)>>

\* The state right after the single optimal redex of the compiled term was
\* applied.
AfterFirstStep == idx = 1 /\ Len(stack) = 2 /\ lastOp \in {"step", "wave"}

\* C9 as stated: (\x.x) (\y.y) under the full discipline, after its single
\* optimal redex, is the root and one abstraction wired to itself.
C9_FullLeavesOnlyIdentity ==
    (ast = TermIdId /\ systemType = "full" /\ AfterFirstStep)
        => OnlyRootAndIdentity(CurGraph)

\* C9, amended: after the single optimal redex of (\x.x) (\y.y) the graph
\* is the root and one abstraction wired to itself under the linear and
\* affine disciplines; under the full discipline it keeps, besides the two,
\* two replicators of one auxiliary port each.
C9_IdentityAfterBeta ==
    (ast = TermIdId /\ AfterFirstStep) =>
        /\ thrown = "none"
        /\ systemType \in {"linear", "affine"} => OnlyRootAndIdentity(CurGraph)
        /\ systemType = "full" => RootIdentityAndTwoReps(CurGraph)

C9_Witness ==
    /\ ast = TermIdId
    /\ systemType = "full"
    /\ AfterFirstStep
    /\ RootIdentityAndTwoReps(CurGraph)

\* The wire from node n leads, through replicators, to the free variable u.
RECURSIVE LeadsToU(_, _, _)
LeadsToU(g, n, fuel) ==
    IF fuel = 0 \/ ~Member(g, n) THEN FALSE
    ELSE IF g.nodes[n].type = "var" THEN g.nodes[n].label = TextLabel("u")
    ELSE IF IsRep(g.nodes[n].type) THEN LeadsToU(g, g.nodes[n].ports[1].node, fuel - 1)
    ELSE FALSE

\* C10: under the full discipline the forward steps of
\* (\k.u) (\f.(\x.f (x x)) (\x.f (x x))) end after two steps: before that
\* a step is available, after it none is, and in the graph then reached the
\* root leads to the variable u and no abstraction, application or eraser
\* is left.
C10_ErasureTerminates ==
    (ast = TermErasure /\ systemType = "full") =>
        /\ thrown = "none"
        /\ Len(stack) <= 3
        /\ (idx = Len(stack) - 1 /\ idx < 2) => forward.kind \in {"step", "final"}
        /\ idx = 2 =>
              /\ forward.kind = "undefined"
              /\ \E r \in SeqToSet(CurGraph.order) :
                    /\ CurGraph.nodes[r].type = "root"
                    /\ LeadsToU(CurGraph, CurGraph.nodes[r].ports[1].node,
                                Len(CurGraph.order))
              /\ \A n \in SeqToSet(CurGraph.order) :
                    CurGraph.nodes[n].type \notin {"abs", "app", "era"}

C10_Witness ==
    /\ ast = TermErasure
    /\ systemType = "full"
    /\ idx = 2
    /\ lastOp = "final"
    /\ forward.kind = "undefined"

\* C11: under the full discipline every graph that forward steps reach from
\* \f.(\x.f (x x)) (\x.f (x x)) has an optimal redex: no step throws, and
\* at the tip of the history forward is a step (never the final cleanup,
\* never undefined).
C11_YAlwaysHasAStep ==
    (ast = TermY /\ systemType = "full") =>
        /\ thrown = "none"
        /\ \E i \in 1..Len(redexes) : redexes[i].optimal
        /\ idx = Len(stack) - 1 => forward.kind = "step"

\* The graph after five forward steps of the term.
C11_Witness ==
    /\ ast = TermY
    /\ systemType = "full"
    /\ idx = 5
    /\ idx = Len(stack) - 1
    /\ lastOp = "step"
    /\ forward.kind = "step"

ActivePair(g, a, b) ==
    /\ P(g.nodes, a, 0) = NP(b, 0)
    /\ P(g.nodes, b, 0) = NP(a, 0)

\* C13: under the linear discipline the redexes of the scan are exactly the
\* principal-to-principal pairs without a variable or the root, one entry
\* per pair, each optimal and with an annihilate thunk (on a node of the
\* pair); no other kind of redex is reported.
C13_LinearScanIsAnnihilationsOnly ==
    systemType = "linear" =>
        /\ NoDuplicatePair(redexes)
        /\ \A i \in 1..Len(redexes) :
              LET r == redexes[i]
              IN  /\ r.optimal
                  /\ r.reduce.kind = "annihilate"
                  /\ r.reduce.node \in {r.a, r.b}
                  /\ Member(CurGraph, r.a) /\ Member(CurGraph, r.b)
                  /\ ActivePair(CurGraph, r.a, r.b)
                  /\ {CurGraph.nodes[r.a].type, CurGraph.nodes[r.b].type}
                        \cap {"var", "root"} = {}
        /\ \A a, b \in SeqToSet(CurGraph.order) :
              (/\ ActivePair(CurGraph, a, b)
               /\ {CurGraph.nodes[a].type, CurGraph.nodes[b].type}
                     \cap {"var", "root"} = {})
                => \E i \in 1..Len(redexes) : SamePair(redexes[i], a, b)

\* A linear graph, reached by a step, whose scan reports an active pair.
C13_Witness ==
    /\ systemType = "linear"
    /\ idx >= 1
    /\ lastOp \in Steps
    /\ \E i \in 1..Len(redexes) :
          /\ ActivePair(CurGraph, redexes[i].a, redexes[i].b)
          /\ redexes[i].optimal

\* The far end of a wire after the pair {a, b} is gone: a wire that ended
\* on auxiliary port i of one node of the pair continues with the wire of
\* port i of the other node.
RECURSIVE FarEndPast(_, _, _, _, _)
FarEndPast(N, a, b, q, fuel) ==
    IF q.node \notin {a, b} \/ fuel = 0 THEN q
    ELSE FarEndPast(N, a, b, P(N, IF q.node = a THEN b ELSE a, q.port), fuel - 1)

\* What annihilating the pair {a, b} of graph g must leave: the graph
\* without a and b, every other node as it was, except that the wires
\* that ended on the pair are joined port by port.
Annihilated(g, a, b) ==
    LET k == Len(g.nodes[a].ports)
        keep == RemoveNodes(g.order, {a, b})
    IN  [order |-> keep,
         nodes |-> [n \in SeqToSet(keep) |->
                      [g.nodes[n] EXCEPT !.ports =
                          [j \in 1..Len(g.nodes[n].ports) |->
                              FarEndPast(g.nodes, a, b, g.nodes[n].ports[j], k)]]]]

\* The nodes of a graph that its array holds.
Live(g) == [order |-> g.order, nodes |-> [n \in SeqToSet(g.order) |-> g.nodes[n]]]

\* C14: annihilating an active pair (a, b) of equal arity k throws nothing,
\* removes exactly a and b, creates no node and, for each i in 1..k, joins
\* the wire of a.ports[i] with the wire of b.ports[i] (a wire with both ends
\* on the pair is followed through); nothing else of the graph changes.
C14_AnnihilateJoinsWires ==
    \A i \in 1..Len(redexes) :
        LET r == redexes[i]
            res == applyThunk(CurGraph, r, relativeLevel)
        IN  (/\ r.reduce.kind = "annihilate"
             /\ ActivePair(CurGraph, r.a, r.b)
             /\ Len(CurGraph.nodes[r.a].ports) = Len(CurGraph.nodes[r.b].ports))
            => /\ res.err = "none"
               /\ Live(AsGraph(res)) = Annihilated(Live(CurGraph), r.a, r.b)

\* An annihilation, in a graph reached by a step, of a pair with a wire
\* that has both ends on the pair (the body of \y.y) and of arity 2.
C14_Witness ==
    /\ idx >= 1
    /\ \E i \in 1..Len(redexes) :
          /\ redexes[i].reduce.kind = "annihilate"
          /\ ActivePair(CurGraph, redexes[i].a, redexes[i].b)
          /\ Len(CurGraph.nodes[redexes[i].a].ports) = 3
          /\ \E j \in 1..2 : P(CurGraph.nodes, redexes[i].a, j).node = redexes[i].a

\* C15: a forward with the cursor below the tip is a redo: the cursor moves
\* one position toward the tip and the stack keeps its length and every
\* graph; a forward applies a reduction (a step or the final cleanup) only
\* with the cursor at the tip.
C15_ForwardBelowTipIsRedo ==
    [][lastOp' \in {"history", "step", "final"} =>
          IF idx < Len(stack) - 1
          THEN /\ lastOp' = "history"
               /\ idx' = idx + 1
               /\ Len(stack') = Len(stack)
               /\ \A k \in 1..Len(stack) :
                     Shape(graphs'[stack'[k]]) = Shape(graphs[stack[k]])
          ELSE lastOp' \in {"step", "final"}]_vars

\* C16: after any sequence of steps and navigation calls, back is defined
\* exactly when the cursor is greater than 0, and so is reset.
C16_BackAndResetIffCursorPositive ==
    /\ back <=> idx > 0
    /\ reset <=> idx > 0

\* The cursor brought back to 0 by a navigation call after two reductions.
C16_Witness ==
    /\ idx = 0
    /\ Len(stack) >= 3
    /\ lastOp \in {"back", "reset"}
    /\ ~back
    /\ ~reset

\* C17: back, reset, last and the redo of forward leave the stack as it
\* is: its length, and the net of every graph in it (the marks that render
\* leaves on the nodes of the current graph aside).
C17_NavigationKeepsStack ==
    [][lastOp' \in {"back", "reset", "last", "history"} =>
          /\ Len(stack') = Len(stack)
          /\ \A k \in 1..Len(stack) :
                Shape(graphs'[stack'[k]]) = Shape(graphs[stack[k]])]_vars

\* The cursor brought to the first snapshot by reset, in a history of at
\* least three snapshots that is still whole.
C17_Witness ==
    /\ lastOp = "reset"
    /\ idx = 0
    /\ Len(stack) >= 3
    /\ forward.kind = "history"

\* The first loop of getRedexes on graph g: the redexes in the order of
\* their creation, none optimal yet.
ScanOf(g) ==
    LET n == Len(g.order)
        acc[i \in 0..n] ==
            IF i = 0 THEN [rs |-> <<>>, nodes |-> ResetFlags(g)]
            ELSE ScanNode(acc[i - 1], g.order[i])
    IN  acc[n]

\* The walk from the root over that list.
WalkOf(g) ==
    LET sc == ScanOf(g)
    IN  traverse(sc.nodes, P(sc.nodes, g.order[rootOf(g)], 0),
                 [rs |-> sc.rs, traversed |-> {}, found |-> FALSE, fan |-> 0])

\* The redexes the walk chose: the first active pair or replicator merge
\* it met or, when it met none, the first auxiliary-fan replication.
WalkChoice(g) ==
    LET w == WalkOf(g)
    IN  IF w.found THEN SelectSeq(w.rs, LAMBDA r : r.optimal)
        ELSE IF w.fan # 0 THEN <<w.rs[w.fan]>>
        ELSE <<>>

\* C18: under the affine, relevant and full disciplines a forward step
\* applies exactly one thunk, that of the first redex the walk from the
\* root met, whatever further redexes the spine pass marked optimal: the
\* graph after the step is the graph before it with that thunk applied.
C18_StepAppliesFirstOfWalk ==
    [][(systemType # "linear" /\ lastOp' = "step") =>
          /\ Len(WalkChoice(CurGraph)) = 1
          /\ Shape(graphs'[stack'[idx' + 1]])
                = Shape(AsGraph(applyThunk(CurGraph, WalkChoice(CurGraph)[1],
                                           relativeLevel)))]_vars

\* A graph, reached by a reduction and at the tip, where the spine pass marked
\* optimal a redex that the scan created before the one the walk chose.
C18_Witness ==
    /\ systemType # "linear"
    /\ lastOp \in Steps
    /\ idx = Len(stack) - 1
    /\ forward.kind = "step"
    /\ Len(Optimal(redexes)) >= 2
    /\ LET sc == ScanOf(CurGraph).rs
           chosen == WalkChoice(CurGraph)[1]
       IN  \E i, j \in 1..Len(sc) :
              /\ j < i
              /\ SamePair(sc[i], chosen.a, chosen.b)
              /\ \E k \in 1..Len(redexes) :
                    redexes[k].optimal /\ SamePair(redexes[k], sc[j].a, sc[j].b)

\* C19 as stated: the final cleanup is the next step only when the scan
\* of the current graph finds no redex of any kind.
C19_FinalOnlyWithoutRedexes ==
    forward.kind = "final" => redexes = <<>>

\* C19, amended: the final cleanup is the next step only when the scan of
\* the current graph marks no redex optimal (redexes that are not optimal
\* may remain), the cleanup has not been applied to the graph and the keep
\* walk from the root leaves some node unmarked.
C19_FinalOnlyWithoutOptimalRedexes ==
    forward.kind = "final" =>
        /\ \A i \in 1..Len(redexes) : ~redexes[i].optimal
        /\ ~data.appliedFinalStep
        /\ data.isFinalStep
        /\ \E n \in SeqToSet(CurGraph.order) : ~CurGraph.nodes[n].keep

\* The final cleanup offered, after a reduction, on a graph whose scan
\* still finds redexes.
C19_Witness ==
    /\ forward.kind = "final"
    /\ lastOp \in Steps
    /\ Len(redexes) >= 1
    /\ \A i \in 1..Len(redexes) : ~redexes[i].optimal

\* The nodes of the graph array that the keep walk of render reaches from
\* the root.
ReachableFromRoot(g) ==
    LET rootNode == g.order[rootOf(g)]
    IN  keepTraverse(g.nodes, P(g.nodes, rootNode, 0), {rootNode})

\* A replicator of the graph with an auxiliary port wired to an eraser.
HasEraserOnAux(g, n) ==
    /\ IsRep(g.nodes[n].type)
    /\ \E i \in 2..Len(g.nodes[n].ports) : g.nodes[g.nodes[n].ports[i].node].type = "era"

\* A replicator with a single auxiliary port of level delta 0.
IsIdentityRep(g, n) ==
    /\ IsRep(g.nodes[n].type)
    /\ Len(g.nodes[n].ports) = 2
    /\ g.nodes[n].levelDeltas[1] = 0

\* C20: after the final cleanup step the graph holds the nodes that the
\* keep walk had marked, less replicators only; every node it holds is
\* reachable from the root, no replicator has an auxiliary port wired to
\* an eraser, and no replicator with a single auxiliary port of level
\* delta 0 remains.
C20_FinalCleanupLeavesReachableNet ==
    [][lastOp' \in {"final", "finalParallel"} =>
          LET pre == CurGraph
              post == graphs'[stack'[idx' + 1]]
              kept == {n \in SeqToSet(pre.order) : pre.nodes[n].keep}
              left == SeqToSet(post.order)
          IN  /\ thrown' = "none"
              /\ left \subseteq kept
              /\ \A n \in kept \ left : IsRep(pre.nodes[n].type)
              /\ left \subseteq ReachableFromRoot(post)
              /\ \A n \in left : ~HasEraserOnAux(post, n) /\ ~IsIdentityRep(post, n)]_vars

\* A final cleanup that has dropped a node the keep walk had not reached
\* and has spliced out a replicator that the walk had reached.
C20_Witness ==
    /\ lastOp \in {"final", "finalParallel"}
    /\ thrown = "none"
    /\ snap # <<>>
    /\ \E i, j \in 1..Len(snap[1].order) :
          LET n == snap[1].order[i]
              m == snap[1].order[j]
          IN  /\ IsRep(snap[1].nodes[n].type)
              /\ n \in ReachableFromRoot(snap[1])
              /\ m \notin ReachableFromRoot(snap[1])
              /\ ~Member(CurGraph, n)
              /\ ~Member(CurGraph, m)

\* The node on which a commutation thunk calls reduceCommute, or Null.
CommuteNode(r) ==
    IF r.reduce.kind = "commuteFanRep" THEN r.reduce.node
    ELSE IF r.reduce.kind = "commuteRepRep" THEN r.reduce.other
    ELSE Null

\* What reduceCommute(node) must have done to graph g when it returned c.
Commuted(g, node, c) ==
    LET N == g.nodes
        M == c.nodes
        other == P(N, node, 0).node
        k == Len(N[node].ports) - 1
        m == Len(N[other].ports) - 1
        old == SeqToSet(g.order)
        new == SeqToSet(c.order)
        ocs == {c.otherClones[i] : i \in 1..Len(c.otherClones)}
        ncs == {c.nodeClones[j] : j \in 1..Len(c.nodeClones)}
        copyOf(x, y, far, arity) ==
            /\ M[x].type = N[y].type
            /\ M[x].levelDeltas = N[y].levelDeltas
            /\ Len(M[x].ports) = arity + 1
            /\ M[x].ports[1] = far
            /\ M[far.node].ports[far.port + 1] = NP(x, 0)
    IN  /\ c.err = "none"
        /\ Len(c.otherClones) = k /\ Cardinality(ocs) = k
        /\ Len(c.nodeClones) = m /\ Cardinality(ncs) = m
        /\ ocs \cap ncs = {}
        /\ (ocs \cup ncs) \cap old = {}
        /\ new = (old \ {node, other}) \cup ocs \cup ncs
        /\ Len(c.order) = Len(g.order) - 2 + k + m
        /\ \A i \in 1..k : copyOf(c.otherClones[i], other, N[node].ports[i + 1], m)
        /\ \A j \in 1..m : copyOf(c.nodeClones[j], node, N[other].ports[j + 1], k)
        /\ \A i \in 1..k : \A j \in 1..m :
              /\ M[c.nodeClones[j]].ports[i + 1] = NP(c.otherClones[i], j)
              /\ M[c.otherClones[i]].ports[j + 1] = NP(c.nodeClones[j], i)

\* C21: commuting an active pair (node with k auxiliary ports, other with
\* m) removes the two nodes and adds k clones of other and m clones of
\* node; the i-th clone of other is linked by its principal port to the far
\* end of node.ports[i], the j-th clone of node to the far end of
\* other.ports[j], auxiliary port i of the j-th clone of node is wired to
\* auxiliary port j of the i-th clone of other, and every clone has the
\* type, arity and level deltas of its original.
C21_CommuteClonesAndWires ==
    \A i \in 1..Len(redexes) :
        LET node == CommuteNode(redexes[i])
        IN  (node # Null /\ ActivePair(CurGraph, redexes[i].a, redexes[i].b))
            => Commuted(CurGraph, node, reduceCommute(CurGraph, node))

\* In a graph reached by a reduction, a replicator with at least two
\* auxiliary ports facing a fan, whose commutation adds two nodes to the
\* graph.
C21_Witness ==
    /\ idx >= 1
    /\ lastOp \in Steps
    /\ \E i \in 1..Len(redexes) :
          /\ redexes[i].reduce.kind = "commuteFanRep"
          /\ ActivePair(CurGraph, redexes[i].a, redexes[i].b)
          /\ Len(CurGraph.nodes[CommuteNode(redexes[i])].ports) >= 3
          /\ Len(reduceCommute(CurGraph, CommuteNode(redexes[i])).order)
                = Len(CurGraph.order) + 2

\* The auxiliary ports of replicator n with their level deltas, the deltas
\* raised by `offset`, port `skip` (0-based; 0 for none) left out.
AuxWires(N, n, offset, skip) ==
    {<<N[n].ports[i + 1], N[n].levelDeltas[i] + offset>> :
        i \in {q \in 1..(Len(N[n].ports) - 1) : q # skip}}

Ascending(d) == \A i \in 1..(Len(d) - 1) : d[i] <= d[i + 1]

\* What the merge of `second` into `first` must have done to graph g when
\* it left r.
Merged(g, first, second, r) ==
    LET N == g.nodes
        M == r.nodes
        p == N[second].ports[1].port
        naux == (Len(N[first].ports) - 1) + (Len(N[second].ports) - 1) - 1
        expected == AuxWires(N, first, 0, p) \cup AuxWires(N, second, N[first].levelDeltas[p], 0)
    IN  /\ r.err = "none"
        /\ r.order = RemoveNodes(g.order, {second})
        /\ Len(M[first].ports) - 1 = naux
        /\ Len(M[first].levelDeltas) = naux
        /\ Ascending(M[first].levelDeltas)
        /\ M[first].ports[1] = N[first].ports[1]
        /\ Cardinality(expected) = naux
        /\ AuxWires(M, first, 0, 0) = expected
        /\ \A i \in 1..naux :
              LET far == M[first].ports[i + 1]
              IN  M[far.node].ports[far.port + 1] = NP(first, i)

\* C22: the merge of replicator `second` into replicator `first` removes
\* second and puts, in place of the auxiliary port of first that led to
\* second, the auxiliary ports of second with their level deltas raised by
\* the delta of that port; first then has aux(first) + aux(second) - 1
\* auxiliary ports, its level deltas ascend, and each auxiliary port leads,
\* reciprocally, to the far end it had on first or on second.
C22_MergeSplicesSecondIntoFirst ==
    \A i \in 1..Len(redexes) :
        LET r == redexes[i]
        IN  r.reduce.kind = "merge"
            => Merged(CurGraph, r.reduce.node, r.reduce.other,
                      applyThunk(CurGraph, r, relativeLevel))

\* In a graph reached by a reduction, a merge of a replicator with at
\* least two auxiliary ports into another one, where the deltas it brings
\* do not all come last in the order.
C22_Witness ==
    /\ idx >= 1
    /\ lastOp \in Steps
    /\ \E i \in 1..Len(redexes) :
          LET r == redexes[i]
              N == CurGraph.nodes
              res == applyThunk(CurGraph, r, relativeLevel)
          IN  /\ r.reduce.kind = "merge"
              /\ Len(N[r.reduce.other].ports) >= 3
              /\ Len(N[r.reduce.node].ports) >= 3
              /\ res.err = "none"
              /\ res.nodes[r.reduce.node].ports
                    # Splice1(N[r.reduce.node].ports, r.reduce.i1,
                              SubSeq(N[r.reduce.other].ports, 2, Len(N[r.reduce.other].ports)))

\* The node that an erasure thunk passes to reduceErase, or Null.
EraseNode(g, r) ==
    IF r.reduce.kind = "erase" THEN r.reduce.node
    ELSE IF r.reduce.kind = "eraseOther" THEN P(g.nodes, r.reduce.node, 0).node
    ELSE Null

\* What reduceErase(node) must have done to graph g when it left r.
Erased(g, node, r) ==
    LET N == g.nodes
        M == r.nodes
        eraser == P(N, node, 0).node
        k == Len(N[node].ports) - 1
        old == SeqToSet(g.order)
        new == SeqToSet(r.order)
        fresh == new \ old
        serves(e, i) ==
            LET q == N[node].ports[i + 1]
            IN  IF q.node # node
                THEN M[e].ports[1] = q /\ M[q.node].ports[q.port + 1] = NP(e, 0)
                ELSE \E e2 \in fresh \ {e} :
                        M[e].ports[1] = NP(e2, 0) /\ M[e2].ports[1] = NP(e, 0)
    IN  /\ r.err = "none"
        /\ new = (old \ {node, eraser}) \cup fresh
        /\ old \cap new = old \ {node, eraser}
        /\ Cardinality(fresh) = k
        /\ Len(r.order) = Len(g.order) + k - 2
        /\ \A e \in fresh : M[e].type = "era" /\ Len(M[e].ports) = 1
        /\ \A i \in 1..k : \E e \in fresh : serves(e, i)
        /\ \A e \in fresh : \E i \in 1..k : serves(e, i)

\* C23: erasing an active pair (eraser, node with k auxiliary ports)
\* removes exactly the eraser and the node and adds exactly k new erasers
\* to the graph, one per auxiliary port of node, each linked by its
\* principal port to the far end of that port (two of them to each other
\* when the wire had both ends on node); the graph has k - 2 more nodes.
C23_EraseReplacesNodeByErasers ==
    \A i \in 1..Len(redexes) :
        LET r == redexes[i]
            node == EraseNode(CurGraph, r)
        IN  (node # Null /\ ActivePair(CurGraph, r.a, r.b))
            => /\ CurGraph.nodes[P(CurGraph.nodes, node, 0).node].type = "era"
               /\ Erased(CurGraph, node, applyThunk(CurGraph, r, relativeLevel))

\* In a graph reached by a reduction, an eraser facing a node with two
\* auxiliary ports.
C23_Witness ==
    /\ idx >= 1
    /\ lastOp \in Steps
    /\ \E i \in 1..Len(redexes) :
          LET node == EraseNode(CurGraph, redexes[i])
          IN  /\ node # Null
              /\ ActivePair(CurGraph, redexes[i].a, redexes[i].b)
              /\ Len(CurGraph.nodes[node].ports) = 3

IsAuxFan(r) == r.reduce.kind \in {"auxFan", "auxFanOther"}

\* The replicator of an auxiliary-fan replication redex.
AuxFanRep(g, r) == IF IsRep(g.nodes[r.a].type) THEN r.a ELSE r.b

\* C24 as stated: an auxiliary-fan replication redex is reported only for a
\* replicator whose principal port is wired to the second auxiliary port
\* (ports[2], the argument) of an application.
C24_AuxFanAtArgumentPort ==
    \A i \in 1..Len(redexes) :
        IsAuxFan(redexes[i]) =>
            LET rep == AuxFanRep(CurGraph, redexes[i])
                p0 == P(CurGraph.nodes, rep, 0)
            IN  /\ IsRep(CurGraph.nodes[rep].type)
                /\ CurGraph.nodes[p0.node].type = "app"
                /\ p0.port = 2

\* C24, amended: an auxiliary-fan replication redex is reported only for a
\* replicator whose principal port is wired to the first auxiliary port
\* (ports[1], the parent) of an application, and the redex pairs that
\* replicator with that application.
C24_AuxFanAtParentPort ==
    \A i \in 1..Len(redexes) :
        IsAuxFan(redexes[i]) =>
            LET rep == AuxFanRep(CurGraph, redexes[i])
                p0 == P(CurGraph.nodes, rep, 0)
            IN  /\ IsRep(CurGraph.nodes[rep].type)
                /\ CurGraph.nodes[p0.node].type = "app"
                /\ p0.port = 1
                /\ SamePair(redexes[i], rep, p0.node)
                /\ P(CurGraph.nodes, p0.node, 1) = NP(rep, 0)

\* A graph, reached by a reduction, whose scan reports an auxiliary-fan
\* replication.
C24_Witness ==
    /\ idx >= 1
    /\ lastOp \in Steps
    /\ \E i \in 1..Len(redexes) : IsAuxFan(redexes[i])

\* A redex of two erasers.
IsEraserPair(g, r) == g.nodes[r.a].type = "era" /\ g.nodes[r.b].type = "era"

\* C25 as stated: in every discipline but the linear one the scan reports
\* a pair of two erasers with optimal = true, whatever else the graph holds.
C25_EraserPairAlwaysOptimal ==
    \A i \in 1..Len(redexes) :
        (systemType # "linear" /\ IsEraserPair(CurGraph, redexes[i])) => redexes[i].optimal

\* C25, amended: in every discipline but the linear one the scan of
\* methods/deltanets.ts reports every active pair of two erasers, and
\* reports it with optimal = false (the walk from the root does not reach
\* it); the scan of the parallel variant reports it with optimal = true.
C25_EraserPairOptimalOnlyInParallel ==
    /\ \A i \in 1..Len(redexes) :
          (systemType # "linear" /\ IsEraserPair(CurGraph, redexes[i])) =>
              (redexes[i].optimal <=> variant = "parallel")
    /\ \A n \in SeqToSet(CurGraph.order) :
          LET o == P(CurGraph.nodes, n, 0).node
          IN  (/\ systemType # "linear"
               /\ thrown = "none"
               /\ CurGraph.nodes[n].type = "era"
               /\ CurGraph.nodes[o].type = "era"
               /\ Member(CurGraph, o))
              => \E i \in 1..Len(redexes) : SamePair(redexes[i], n, o)

\* A graph, reached by a reduction, with a pair of two erasers next to a
\* redex that the scan reports as optimal.
C25_Witness ==
    /\ idx >= 1
    /\ lastOp \in Steps
    /\ systemType # "linear"
    /\ \E i, j \in 1..Len(redexes) :
          /\ IsEraserPair(CurGraph, redexes[i])
          /\ ~redexes[i].optimal
          /\ redexes[j].optimal

\* C26 as stated: every redex {a, b} of the scan is an active pair:
\* a.ports[0] = (b, 0) and b.ports[0] = (a, 0).
C26_EveryRedexIsActivePair ==
    \A i \in 1..Len(redexes) : ActivePair(CurGraph, redexes[i].a, redexes[i].b)

\* The redex {a, b} is a replicator merge: the principal port of b, the
\* second replicator, is wired to an auxiliary port of a, the first.
MergePair(g, r) ==
    /\ r.reduce.kind = "merge"
    /\ IsRep(g.nodes[r.a].type) /\ IsRep(g.nodes[r.b].type)
    /\ P(g.nodes, r.b, 0).node = r.a
    /\ P(g.nodes, r.b, 0).port >= 1
    /\ P(g.nodes, r.a, P(g.nodes, r.b, 0).port) = NP(r.b, 0)

\* The redex {a, b} is an auxiliary-fan replication: the principal port of
\* replicator a is wired to port 1 of application b.
AuxFanPair(g, r) ==
    /\ IsAuxFan(r)
    /\ IsRep(g.nodes[r.a].type) /\ g.nodes[r.b].type = "app"
    /\ P(g.nodes, r.a, 0) = NP(r.b, 1)
    /\ P(g.nodes, r.b, 1) = NP(r.a, 0)

\* C26, amended: every redex {a, b} of the scan is an active pair
\* (a.ports[0] = (b, 0) and b.ports[0] = (a, 0)), a replicator merge (the
\* principal port of b wired to an auxiliary port of a) or an
\* auxiliary-fan replication (the principal port of replicator a wired to
\* port 1 of application b); erasures, annihilations and commutations are
\* active pairs.
C26_RedexIsActivePairMergeOrAuxFan ==
    \A i \in 1..Len(redexes) :
        LET r == redexes[i]
        IN  IF r.reduce.kind = "merge" THEN MergePair(CurGraph, r)
            ELSE IF IsAuxFan(r) THEN AuxFanPair(CurGraph, r)
            ELSE /\ ActivePair(CurGraph, r.a, r.b)
                 /\ r.reduce.kind \in {"erase", "eraseOther", "annihilate",
                                       "commuteFanRep", "commuteRepRep"}

\* A scan, after a reduction, that reports an active pair, a merge and an
\* auxiliary-fan replication.
C26_Witness ==
    /\ idx >= 1
    /\ lastOp \in Steps
    /\ \E i, j, k \in 1..Len(redexes) :
          /\ ActivePair(CurGraph, redexes[i].a, redexes[i].b)
          /\ redexes[j].reduce.kind = "merge"
          /\ IsAuxFan(redexes[k])

\* The priority category of a redex of the parallel scan: 1 erasure,
\* 2 annihilation, 3 decay, 4 commutation, 5 merge, 6 auxiliary-fan
\* replication.
Category(g, r) ==
    IF r.reduce.kind = "erase" THEN 1
    ELSE IF r.reduce.kind = "annihilate" THEN 2
    ELSE IF r.reduce.kind = "repDecay" THEN 3
    ELSE IF r.reduce.kind = "auxFan" /\ g.nodes[P(g.nodes, r.reduce.node, 1).node].type = "era"
         THEN 3
    ELSE IF r.reduce.kind \in {"commuteFanRep", "commuteRepRep"} THEN 4
    ELSE IF r.reduce.kind \in {"merge", "mergeUndefined"} THEN 5
    ELSE 6

EraserActivePairs(g) ==
    \E n \in SeqToSet(g.order) :
        g.nodes[P(g.nodes, n, 0).node].type = "era" /\ g.nodes[n].type # "era"

FanFanAnnihilations(g) ==
    \E n \in SeqToSet(g.order) :
        /\ g.nodes[n].type = "abs"
        /\ g.nodes[P(g.nodes, n, 0).node].type = "app"
        /\ P(g.nodes, n, 0).port = 0

RepRepPairs(g, sameLevel) ==
    \E n \in SeqToSet(g.order) :
        /\ IsRep(g.nodes[n].type)
        /\ IsRep(g.nodes[P(g.nodes, n, 0).node].type)
        /\ P(g.nodes, n, 0).port = 0
        /\ sameLevel => parseRepLabel(g.nodes[n].label).level
                          = parseRepLabel(g.nodes[P(g.nodes, n, 0).node].label).level

FanDecays(g) ==
    \E n \in SeqToSet(g.order) :
        g.nodes[n].type \in {"abs", "app"} /\ g.nodes[P(g.nodes, n, 1).node].type = "era"

RepDecays(g) ==
    \E n \in SeqToSet(g.order) :
        /\ IsRep(g.nodes[n].type)
        /\ \/ /\ parseRepLabel(g.nodes[n].label).status = "unpaired"
              /\ isConnectedToSomeErasers(g.nodes, n)
           \/ isConnectedToAllErasers(g.nodes, n)

Commutations(g) ==
    \/ RepRepPairs(g, FALSE)
    \/ \E n \in SeqToSet(g.order) :
          /\ IsRep(g.nodes[n].type)
          /\ g.nodes[P(g.nodes, n, 0).node].type \in {"abs", "app"}
          /\ P(g.nodes, n, 0).port = 0

\* No erasure but of two erasers, no annihilation and no decay.
NothingToShrink(g) ==
    /\ ~FanDecays(g) /\ ~RepDecays(g) /\ ~EraserActivePairs(g)
    /\ ~FanFanAnnihilations(g) /\ ~RepRepPairs(g, TRUE)

RECURSIVE Occurrences(_, _, _, _, _)
Occurrences(t, name, level, slotType, slotPort) ==
    IF t.type = "var"
    THEN IF t.name = name
         THEN <<[level |-> level, type |-> slotType, port |-> slotPort]>> ELSE <<>>
    ELSE IF t.type = "app"
    THEN Occurrences(t.func, name, level, "app", 0)
         \o Occurrences(t.arg, name, level + 1, "app", 2)
    ELSE IF t.name = name THEN <<>>
    ELSE Occurrences(t.body, name, level, "abs", 1)

\* The binders of term t in the order in which the compiler meets them,
\* each with its level and the occurrences it binds.
RECURSIVE Binders(_, _)
Binders(t, level) ==
    IF t.type = "var" THEN <<>>
    ELSE IF t.type = "app" THEN Binders(t.func, level) \o Binders(t.arg, level + 1)
    ELSE <<[name |-> t.name, level |-> level,
            uses |-> Occurrences(t.body, t.name, level, "abs", 1)]>>
         \o Binders(t.body, level)

\* C28: in the graph of a term before the splice pass, the variable port
\* of a binder with n >= 1 occurrences is wired to the principal port of
\* one rep-in replicator with n auxiliary ports, the i-th wired to the
\* place of the i-th occurrence from the left and carrying the level delta
\* (level of the occurrence - level of the binder - 1), levels growing by
\* one in the argument of an application only; the variable port of a
\* binder with no occurrence is wired to an eraser of the graph.
C28_CompiledBindersAndReplicators ==
    LET g == Compiled(ast, relativeLevel)
        N == g.nodes
        abss == SelectSeq(g.order, LAMBDA n : N[n].type = "abs")
        bs == Binders(ast, 0)
    IN  /\ Len(abss) = Len(bs)
        /\ \A k \in 1..Len(bs) :
              LET a == abss[k]
                  b == bs[k]
                  n == Len(b.uses)
                  v == P(N, a, 2)
              IN  /\ N[a].label = TextLabel(b.name)
                  /\ Member(g, v.node)
                  /\ P(N, v.node, 0) = NP(a, 2)
                  /\ v.port = 0
                  /\ IF n = 0 THEN N[v.node].type = "era"
                     ELSE /\ N[v.node].type = "rep-in"
                          /\ Len(N[v.node].ports) = n + 1
                          /\ N[v.node].levelDeltas
                                = [i \in 1..n |-> b.uses[i].level - b.level - 1]
                          /\ \A i \in 1..n :
                                LET far == P(N, v.node, i)
                                IN  /\ P(N, far.node, far.port) = NP(v.node, i)
                                    /\ N[far.node].type = b.uses[i].type
                                    /\ far.port = b.uses[i].port

\* A term, compiled and reduced at least once, with a binder of three
\* occurrences at two levels and a binder of none.
C28_Witness ==
    /\ idx >= 1
    /\ LET bs == Binders(ast, 0)
       IN  /\ \E k \in 1..Len(bs) :
                 /\ Len(bs[k].uses) >= 3
                 /\ \E i, j \in 1..Len(bs[k].uses) : bs[k].uses[i].level # bs[k].uses[j].level
           /\ \E k \in 1..Len(bs) : bs[k].uses = <<>>

\* The replicators of the compiled graph c with exactly one auxiliary port
\* whose level delta is 0, or of any delta when anyDelta holds.
SinglePort(c, anyDelta) ==
    {n \in SeqToSet(c.order) :
        /\ IsRep(c.nodes[n].type)
        /\ Len(c.nodes[n].ports) = 2
        /\ c.nodes[n].levelDeltas[1] = 0 \/ anyDelta}

\* init has turned the compiled graph c into g by removing the nodes gone
\* and no others, the two neighbours of each being linked to each other, and
\* none of the replicators SinglePort(g, anyDelta) remains.
SplicedOut(c, g, gone, anyDelta) ==
    /\ g.order = RemoveNodes(c.order, gone)
    /\ SinglePort(g, anyDelta) = {}
    /\ \A n \in gone :
          LET p0 == c.nodes[n].ports[1]
              p1 == c.nodes[n].ports[2]
          IN  /\ P(g.nodes, p0.node, p0.port) = p1
              /\ P(g.nodes, p1.node, p1.port) = p0

\* C29 as stated: the graph that init returns holds no replicator with
\* exactly one auxiliary port of level delta 0 and, under the linear and
\* affine disciplines, no replicator with exactly one auxiliary port of any
\* delta; the two neighbours of every replicator so removed are linked.
C29_SinglePortSplicedUnderLinearOrAffine ==
    LET c == Compiled(ast, relativeLevel)
        anyDelta == systemType \in {"linear", "affine"}
    IN  SplicedOut(c, init(ast, systemType, relativeLevel), SinglePort(c, anyDelta), anyDelta)

\* Every replicator of the compiled graph c has exactly one auxiliary port.
AllSinglePort(c) ==
    \A n \in SeqToSet(c.order) : IsRep(c.nodes[n].type) => Len(c.nodes[n].ports) = 2

\* C29 (amended): the graph that init returns holds no replicator with
\* exactly one auxiliary port of level delta 0; the replicators with one
\* auxiliary port of another delta are spliced out only under the linear and
\* affine disciplines and only when every replicator of the compiled graph
\* has exactly one auxiliary port, and remain otherwise; the two neighbours
\* of every replicator removed are linked to each other.
C29_SinglePortSplicedWhenAllSinglePort ==
    LET c == Compiled(ast, relativeLevel)
        anyDelta == systemType \in {"linear", "affine"} /\ AllSinglePort(c)
    IN  SplicedOut(c, init(ast, systemType, relativeLevel), SinglePort(c, anyDelta), anyDelta)

\* A term compiled under the affine discipline whose replicator of a nonzero
\* delta was spliced out, the compiled graph holding single-port replicators
\* only.
C29_Witness ==
    LET c == Compiled(ast, relativeLevel)
    IN  /\ lastOp = "init" /\ systemType \in {"linear", "affine"} /\ AllSinglePort(c)
        /\ \E n \in SinglePort(c, TRUE) : c.nodes[n].levelDeltas[1] # 0
        /\ SinglePort(c, FALSE) # {}

\* C30: in every graph of the history every replicator carries exactly one
\* level delta per auxiliary port (as many level deltas as ports but the
\* principal one), and no node of another kind carries a level delta.
C30_OneLevelDeltaPerAuxiliaryPort ==
    \A o \in DOMAIN graphs :
        \A n \in SeqToSet(graphs[o].order) :
            LET node == graphs[o].nodes[n]
            IN  IF IsRep(node.type)
                THEN Len(node.levelDeltas) = Len(node.ports) - 1
                ELSE node.levelDeltas = <<>>

\* The final step has just removed auxiliary ports of a replicator that
\* stays in the graph with the ports that are left, next to a node of
\* another kind.
C30_Witness ==
    /\ lastOp = "final" /\ idx >= 1
    /\ LET g == CurGraph
           before == graphs[stack[idx]]
       IN  /\ \E n \in SeqToSet(g.order) \cap SeqToSet(before.order) :
                 /\ IsRep(g.nodes[n].type)
                 /\ Len(g.nodes[n].ports) >= 2
                 /\ Len(g.nodes[n].ports) < Len(before.nodes[n].ports)
           /\ \E n \in SeqToSet(g.order) : g.nodes[n].type \in {"abs", "app"}

\* The number of auxiliary ports of node n of graph g fits its kind: two for
\* an abstraction and an application, at least one for a replicator, none
\* for an eraser, a free variable and the root.
ArityFits(g, n) ==
    LET node == g.nodes[n]
        aux == Len(node.ports) - 1
    IN  CASE node.type \in {"abs", "app"} -> aux = 2
          [] IsRep(node.type) -> aux >= 1
          [] OTHER -> aux = 0

\* C31 as stated: in every graph of the history every abstraction and
\* application has exactly two auxiliary ports, every replicator at least
\* one, and every eraser, free variable and root none.
C31_EveryNodeHasTheArityOfItsKind ==
    \A o \in DOMAIN graphs :
        \A n \in SeqToSet(graphs[o].order) : ArityFits(graphs[o], n)

\* The final cleanup has just removed auxiliary ports of a replicator that
\* stays in the graph, in a history one of whose earlier steps was the
\* auxiliary-fan replication of an application facing a replicator.
C31_Witness ==
    /\ lastOp = "final" /\ idx >= 2 /\ thrown = "none"
    /\ LET g == CurGraph
           before == graphs[stack[idx]]
       IN  \E n \in SeqToSet(g.order) \cap SeqToSet(before.order) :
               /\ IsRep(g.nodes[n].type)
               /\ Len(g.nodes[n].ports) < Len(before.nodes[n].ports)
    /\ \E k \in 1..(idx - 1) :
           LET w == WalkChoice(graphs[stack[k]])
           IN  /\ Len(w) = 1
               /\ IsAuxFan(w[1])
               /\ Len(graphs[stack[k + 1]].order) > Len(graphs[stack[k]].order)

\* C32: last is defined exactly when the cursor is below the tip of the
\* history, idx < stack.length - 1.
C32_LastDefinedIffBelowTip ==
    last <=> idx < Len(stack) - 1

\* C33: right after the final cleanup step the cursor is at the tip and
\* neither forward nor forwardParallel is defined: the scan of the cleaned
\* graph marks no redex optimal and the keep walk from the root reaches
\* every node of the graph.
C33_FinalCleanupIsTerminal ==
    lastOp \in {"final", "finalParallel"} =>
        /\ idx = Len(stack) - 1
        /\ forward = Undefined
        /\ forwardParallel = Undefined
        /\ \A i \in 1..Len(redexes) : ~redexes[i].optimal
        /\ SeqToSet(CurGraph.order) \subseteq ReachableFromRoot(CurGraph)

\* The final cleanup has just been applied to a graph that held a node the
\* keep walk did not reach and whose scan reported a redex, none optimal.
C33_Witness ==
    /\ lastOp \in {"final", "finalParallel"}
    /\ thrown = "none"
    /\ idx >= 1
    /\ LET before == graphs[stack[idx]]
       IN  /\ ~(SeqToSet(before.order) \subseteq ReachableFromRoot(before))
           /\ Len(ScanOf(before).rs) >= 1

\* Node and the node at its principal port are connected principal port to
\* principal port.
PrincipalPair(g, node) ==
    LET p0 == P(g.nodes, node, 0)
    IN  /\ p0.port = 0
        /\ P(g.nodes, p0.node, 0) = NP(node, 0)

\* C34: reduceAnnihilate called on a node of the graph that is not
\* connected principal port to principal port with the node at its
\* principal port, or whose number of ports differs from that node's,
\* throws an Error and leaves the graph as it was, the same nodes with the
\* same ports; and a step whose annihilation has thrown has left the graph
\* it was applied to as it was.
C34_AnnihilateRejectsWithoutChange ==
    /\ \A node \in SeqToSet(CurGraph.order) :
           LET g == CurGraph
               other == P(g.nodes, node, 0).node
           IN  (~PrincipalPair(g, node) \/ Len(g.nodes[node].ports) # Len(g.nodes[other].ports)) =>
                   LET r == reduceAnnihilate(g, node)
                   IN  /\ r.err # "none"
                       /\ r.order = g.order
                       /\ r.nodes = g.nodes
    /\ (lastOp \in {"step", "click"} /\ thrown # "none") => Shape(CurGraph) = snap[1]

\* A step has called reduceAnnihilate on a replicator and an abstraction
\* that face each other with different numbers of ports, and it has thrown.
C34_Witness ==
    /\ lastOp = "step"
    /\ thrown = "nodes have different number of ports!"
    /\ Shape(CurGraph) = snap[1]
    /\ \E node \in SeqToSet(CurGraph.order) :
           /\ PrincipalPair(CurGraph, node)
           /\ IsRep(CurGraph.nodes[node].type)
           /\ Len(CurGraph.nodes[node].ports) # Len(CurGraph.nodes[P(CurGraph.nodes, node, 0).node].ports)

\* C35 as stated: the final cleanup step is offered only under the affine
\* and full disciplines, never under the linear and relevant ones.
C35_FinalOnlyWhereErasurePermitted ==
    (forward.kind = "final" \/ forwardParallel.kind = "final") =>
        systemType \in {"affine", "full"}

\* The number of occurrences of the variable `name` in term t that a
\* binder of `name` enclosing t binds: those not under another binder of
\* the same name.
RECURSIVE FreeCount(_, _)
FreeCount(t, name) ==
    IF t.type = "var" THEN (IF t.name = name THEN 1 ELSE 0)
    ELSE IF t.type = "abs" THEN (IF t.name = name THEN 0 ELSE FreeCount(t.body, name))
    ELSE FreeCount(t.func, name) + FreeCount(t.arg, name)

\* The numbers of occurrences of the bound variables of the abstractions
\* of term t, each counted in the scope of its abstraction.
RECURSIVE UseCounts(_)
UseCounts(t) ==
    IF t.type = "var" THEN {}
    ELSE IF t.type = "abs" THEN {FreeCount(t.body, t.name)} \cup UseCounts(t.body)
    ELSE UseCounts(t.func) \cup UseCounts(t.arg)

\* The discipline a term needs by the occurrences of its bound variables.
TypeByScope(t) ==
    LET erasure == 0 \in UseCounts(t)
        sharing == \E c \in UseCounts(t) : c > 1
    IN  IF sharing THEN (IF erasure THEN "full" ELSE "relevant")
        ELSE (IF erasure THEN "affine" ELSE "linear")

\* C36: getExpressionType returns "linear" exactly when the bound variable
\* of every abstraction occurs exactly once in its scope, "affine" when
\* none occurs more than once and some occurs zero times, "relevant" when
\* some occurs more than once and none zero times, and "full" when both
\* happen, also for terms that bind a variable name again.
C36_TypeByOccurrencesInScope ==
    getExpressionType(ast) = TypeByScope(ast)

====
